---- MODULE Spec2Model ----
(***************************************************************************)
(* Model of the two periodic-synchronisation services of the repository:   *)
(*                                                                         *)
(*  - gitfetcher: scheduler.Scheduler, one timer goroutine (runScheduler)   *)
(*    per repository, manual fetches (ManualFetch), reload (LoadConfig),    *)
(*    status snapshots (GetStatus) and shutdown (Stop);                     *)
(*  - github-sync: sync.Syncer.syncIssue, the record-style executor, with   *)
(*    its ledger (storage.PostgresDB), the remote sink (github.Client) and  *)
(*    the origin (redmine.Client).                                          *)
(*                                                                         *)
(* Every critical section of the Scheduler (code between s.mu.Lock and      *)
(* s.mu.Unlock) contains no blocking call, so each is one atomic action.    *)
(* The blocking call fetcher.Fetch runs outside the lock, between ExecBegin *)
(* and ExecEnd.                                                             *)
(***************************************************************************)
EXTENDS Integers, Sequences, FiniteSets, TLC

\* ----------------------------------------------------------------- bounds
\* Number of Scheduler.LoadConfig calls explored.
MaxLoads == 2
\* Longest repository list of a configuration.
MaxRepos == 2
\* Number of goroutines (timer workers and manual fetches) ever started.
MaxGoroutines == 3
\* Number of ticker firings consumed by workers, over all workers.
MaxTicks == 1
\* Number of Redmine issues.
MaxItems == 2
\* Number of service instances calling syncIssue.
MaxProcs == 2
\* Number of syncIssue calls explored.
MaxCalls == 3
\* Number of ManualFetch calls for a name that has no entry.
MaxUnknown == 1
\* Number of GetStatus calls whose result the caller keeps.
MaxSnapshots == 1
\* Number of requests the webhook server handles.
MaxRequests == 2
\* Longest interval string of a configuration, in characters.
MaxIntervalLen == 2
\* Number of configuration changes the watcher fails to load.
MaxFailedReloads == 1
\* Number of changes of the github-sync configuration file.
MaxChanges == 2
MaxFetches == 3
MaxTime == 4
MaxEdits == 2
MaxBurst == 2
MaxIssueID == 4
MaxRunItems == 2
MaxRuns == 2

\* Repository names (task identities).
Names == {"repo-a", "repo-b"}

\* Sequences over S of length lo..hi.
SeqsOf(S, lo, hi) == UNION {[1..k -> S] : k \in lo..hi}

\* The repository lists a configuration can hold.  config.Validate rejects an
\* empty list; it does not require the names to be distinct.
Configs == SeqsOf(Names, 1, MaxRepos)

\* cfg declares some name twice.
HasDuplicates(cfg) == \E i, j \in 1..Len(cfg) : i # j /\ cfg[i] = cfg[j]

\* Index of the last entry of cfg that names n, 0 when there is none: the
\* entry whose map assignment survives the loop over cfg.Repos.
LastIndex(cfg, n) ==
    IF \E i \in 1..Len(cfg) : cfg[i] = n
    THEN CHOOSE i \in 1..Len(cfg) :
            cfg[i] = n /\ \A j \in 1..Len(cfg) : cfg[j] = n => j <= i
    ELSE 0

VARIABLES
    \* ---- scheduler.Scheduler
    repos,        \* s.repos: name -> address of its RepoStatus in heap, 0 = no entry
    stopChans,    \* s.stopChans: name -> channel id, 0 = no entry
    heap,         \* every RepoStatus ever allocated, by address
    closed,       \* every stop channel ever made: TRUE once closed
    gs,           \* every goroutine ever started (timer workers, manual fetches)
    wg,           \* s.wg counter
    stopPc,       \* the caller of Stop: "idle", "waiting" (in wg.Wait), "returned"
    panicked,     \* the process died on close of a closed channel
    \* ---- history of the scheduler run
    loads,        \* LoadConfig calls so far
    lastCfg,      \* argument of the last LoadConfig that returned
    dupLoaded,    \* some LoadConfig got a list with a repeated name
    completed,    \* name -> executions begun and completed since the last reload
    loadsAtStop,  \* value of loads when Stop was called
    ticks,        \* ticker firings consumed
    unknown,      \* ManualFetch calls that found no entry for their name
    manualErr,    \* some ManualFetch call returned a non-nil error
    \* ---- a caller of GetStatus
    snap,         \* the map GetStatus returned to it: name -> the object it points to
    snapAt,       \* name -> what that object held when GetStatus returned,
                  \*         with the caller's own writes applied
    snaps,        \* GetStatus calls so far
    callerWrote,  \* the caller has written to a record of its map
    \* ---- github-sync webhook.Server
    secret,       \* s.secret, "" when none is configured
    reqs,         \* the requests handled, in order, each with its response
    pending,      \* goroutines started by the handler that have not run yet
    triggers,     \* SyncSpecificIssue calls made, in order
    \* ---- gitfetcher config package
    input,        \* the configuration (or file content) handed to the package
    disk,         \* content of the configuration file
    result,       \* the last call of the package and what it returned
    httpStatus,   \* status of the response when the last call was a POST
                  \* /api/config, else 0
    fileWritten,  \* the last call wrote the file (fsnotify reports a Write
                  \* event, on which the watcher reloads)
    \* ---- gitfetcher main: the configuration file watcher
    failedReloads, \* for each reload that failed to load, the value of loads then
    tickers,       \* for each worker the watcher's reloads started, the interval
                   \* runScheduler hands to time.NewTicker (minutes)
    \* ---- github-sync: configuration reload
    globalConfig, \* config.globalConfig: the sections a reload replaces
    syncerCfg,    \* what the Syncer's config and clients were last built from
    syncInterval,     \* sync.Scheduler.interval, and the file version it came from
    reloadChan,   \* notifications pending in config.reloadChan (capacity 1)
    changes,      \* changes of the configuration file so far
    invalid,      \* versions of the file that were invalid in some part
    \* ---- github-sync: Syncer.Run
    runPc,        \* "idle", or "running" while the Scheduler is in Syncer.Run
    runs,         \* Syncer.Run calls begun
    runProjects,  \* file version of the project list the run ranges over
    seen,         \* for each item of the run so far, the file versions its
                  \* project (custom-field IDs) and its title format came from
    \* ---- gitfetcher scheduler: s.mu
    mu,           \* the goroutine that holds s.mu between two of its steps,
                  \* 0 when the lock is free
    \* ---- github-sync: the body of a created issue
    redmineFile,  \* the redmine section of the configuration file
    bodyIssue,    \* the Redmine issue last handed to buildGitHubIssueBody
    issueBody,    \* the body it returned, as the pieces it is put together from
    \* ---- gitfetcher main: the watched file and watcher.Events
    watched,      \* content of the watched configuration file
    events,       \* Write events waiting in watcher.Events
    edits,        \* edits of the file so far
    \* ---- gitfetcher scheduler: time
    now,          \* the clock
    tickerAt,     \* goroutine -> when its ticker delivers next, 0 = no ticker
    tickerC,      \* goroutine -> ticks waiting in ticker.C (capacity 1)
    nextFetch,    \* address -> NextFetch of that RepoStatus
    ended,        \* goroutine -> when its last executeFetch booked its
                  \* result, -1 = never
    \* ---- gitfetcher fetcher.GitFetcher
    localPaths,   \* name -> what the repository's local_path holds on disk
    fetchOps,     \* the Fetch calls made, in order: what os.Stat found, and
                  \* once the call has returned the command it ran, whether
                  \* the command succeeded, and the Result it returned
    \* ---- github-sync
    target,       \* issue -> value of its target-repo custom field
    urlField,     \* issue -> its GitHub-URL custom field is filled in
    ledger,       \* rows of sync_records
    created,      \* GitHub issues created, in order: the originating issue of each
    errors,       \* rows of sync_errors: the originating issue of each
    sp,           \* process -> its syncIssue call
    calls,        \* completed syncIssue calls, in order of completion
    started,      \* syncIssue calls started
    faulted       \* some external call failed or some process crashed

schedVars == <<repos, stopChans, heap, closed, gs, wg, stopPc, panicked,
               loads, lastCfg, dupLoaded, completed, loadsAtStop, ticks,
               unknown, manualErr>>
syncVars == <<target, urlField, ledger, created, errors, sp, calls, started, faulted>>
readerVars == <<snap, snapAt, snaps, callerWrote>>
hookVars == <<secret, reqs, pending, triggers>>
cfgVars == <<input, disk, result, httpStatus, fileWritten>>
watchVars == <<failedReloads, tickers>>
reloadVars == <<globalConfig, syncerCfg, syncInterval, reloadChan, changes, invalid>>
fetchVars == <<localPaths, fetchOps>>
clockVars == <<now, tickerAt, tickerC, nextFetch, ended>>
burstVars == <<watched, events, edits>>
bodyVars == <<redmineFile, bodyIssue, issueBody>>
lockVars == <<mu>>
runVars == <<runPc, runs, runProjects, seen>>
vars == <<schedVars, syncVars, readerVars, hookVars, cfgVars, watchVars, reloadVars,
          fetchVars, clockVars, burstVars, bodyVars, lockVars, runVars>>

\* What the actions of the gitfetcher scheduler leave alone.
nonSchedVars ==
    <<syncVars, readerVars, hookVars, cfgVars, watchVars, reloadVars,
      fetchVars, clockVars, burstVars, bodyVars, lockVars, runVars>>
\* What the actions of the github-sync executor leave alone.
nonSyncVars ==
    <<schedVars, readerVars, hookVars, cfgVars, watchVars, reloadVars,
      fetchVars, clockVars, burstVars, bodyVars, lockVars, runVars>>
\* What the webhook server leaves alone.
nonHookVars ==
    <<schedVars, syncVars, readerVars, cfgVars, watchVars, reloadVars,
      fetchVars, clockVars, burstVars, bodyVars, lockVars, runVars>>
\* What the calls of the gitfetcher config package leave alone.
nonCfgVars ==
    <<schedVars, syncVars, readerVars, hookVars, watchVars, reloadVars,
      fetchVars, clockVars, burstVars, bodyVars, lockVars, runVars>>
\* What the reload of the github-sync configuration leaves alone.
nonReloadVars ==
    <<schedVars, syncVars, readerVars, hookVars, cfgVars, watchVars,
      fetchVars, clockVars, burstVars, bodyVars, lockVars, runVars>>

\* The webhook server is not running.
HookIdle ==
    /\ secret = ""
    /\ reqs = <<>>
    /\ pending = {}
    /\ triggers = <<>>


\* No call of the gitfetcher config package is made.
ConfigIdle ==
    /\ input = <<>>
    /\ disk = <<>>
    /\ result = <<>>
    /\ httpStatus = 0
    /\ fileWritten = FALSE

\* The github-sync configuration is not loaded.
ReloadIdle ==
    /\ globalConfig = <<>>
    /\ syncerCfg = <<>>
    /\ syncInterval = <<>>
    /\ reloadChan = 0
    /\ changes = 0
    /\ invalid = {}

\* What the steps of Syncer.Run leave alone.
nonRunVars ==
    <<schedVars, syncVars, readerVars, hookVars, cfgVars, watchVars, reloadVars,
      fetchVars, clockVars, burstVars, bodyVars, lockVars>>

\* Syncer.Run is never called.
RunIdle ==
    /\ runPc = "idle"
    /\ runs = 0
    /\ runProjects = 0
    /\ seen = <<>>

\* Nobody holds s.mu.
LockIdle == mu = 0

\* No issue body is built.
BodyIdle ==
    /\ redmineFile = <<>>
    /\ bodyIssue = <<>>
    /\ issueBody = <<>>

\* No file is watched.
BurstIdle ==
    /\ watched = <<>>
    /\ events = 0
    /\ edits = 0

\* Time is not followed.
ClockIdle ==
    /\ now = 0
    /\ tickerAt = <<>>
    /\ tickerC = <<>>
    /\ nextFetch = <<>>
    /\ ended = <<>>

\* No repository has a local path and no Fetch call is made.
FetchIdle ==
    /\ localPaths = <<>>
    /\ fetchOps = <<>>

\* =================================================================
\* gitfetcher: scheduler.Scheduler
\* =================================================================

\* The RepoStatus LoadConfig allocates for one repository.
NewStatus(name) ==
    [Name |-> name, IsRunning |-> FALSE, LastSuccess |-> FALSE,
     FetchCount |-> 0, SuccessCount |-> 0, FailCount |-> 0]

\* The goroutine `go s.runScheduler(name, ..., stopChan)`.  runs counts its
\* executeFetch calls, ticked the ticks its select has taken, fails the
\* fetches of its own that returned a failure.
NewWorker(name, ch) ==
    [kind |-> "timer", name |-> name, ch |-> ch, pc |-> "call", st |-> 0, epoch |-> 0,
     runs |-> 0, ticked |-> 0, fails |-> 0]

\* The goroutine `go s.executeFetch(name, localPath)` of ManualFetch.
NewManual(name) ==
    [kind |-> "manual", name |-> name, ch |-> 0, pc |-> "call", st |-> 0, epoch |-> 0,
     runs |-> 0, ticked |-> 0, fails |-> 0]

\* NewScheduler: empty maps, nothing running.
SchedInit ==
    /\ repos = [n \in Names |-> 0]
    /\ stopChans = [n \in Names |-> 0]
    /\ heap = <<>>
    /\ closed = <<>>
    /\ gs = <<>>
    /\ wg = 0
    /\ stopPc = "idle"
    /\ panicked = FALSE
    /\ loads = 0
    /\ lastCfg = <<>>
    /\ dupLoaded = FALSE
    /\ completed = [n \in Names |-> 0]
    /\ loadsAtStop = 0
    /\ ticks = 0
    /\ unknown = 0
    /\ manualErr = FALSE
    /\ snap = <<>>
    /\ snapAt = <<>>
    /\ snaps = 0
    /\ callerWrote = FALSE
    /\ failedReloads = <<>>
    /\ tickers = <<>>

\* Channels registered in s.stopChans.
Registered == {stopChans[n] : n \in {m \in Names : stopChans[m] # 0}}

\* close(stopChan) for every entry of s.stopChans.
CloseRegistered == [c \in 1..Len(closed) |-> closed[c] \/ c \in Registered]

\* close of an already closed channel: a run-time panic.
ClosePanics == \E c \in Registered : closed[c]

\* A reload that keeps the old map and only adds to it.
KeepRepos == repos

\* `s.repos = make(map[string]*RepoStatus)`: the old entries are dropped.
ClearRepos == [n \in Names |-> 0]

\* `delete(s.stopChans, name)` for every entry.
ClearStopChans == [n \in Names |-> 0]

\* LoadConfig: under s.mu, close and forget every stop channel, drop every
\* status, then for each configured repository allocate a status and a stop
\* channel, register both under the name, wg.Add(1) and start a worker.  It
\* does not wait for the workers it signalled.
SchedLoadConfig(cfg) ==
    /\ ~panicked
    /\ loads < MaxLoads
    /\ Len(gs) + Len(cfg) <= MaxGoroutines
    /\ loads' = loads + 1
    /\ dupLoaded' = (dupLoaded \/ HasDuplicates(cfg))
    /\ IF ClosePanics
       THEN /\ panicked' = TRUE
            /\ UNCHANGED <<repos, stopChans, heap, closed, gs, wg, lastCfg, completed>>
       ELSE /\ closed' = CloseRegistered \o [i \in 1..Len(cfg) |-> FALSE]
            /\ heap' = heap \o [i \in 1..Len(cfg) |-> NewStatus(cfg[i])]
            /\ repos' = [n \in Names |->
                           IF LastIndex(cfg, n) # 0
                           THEN Len(heap) + LastIndex(cfg, n)
                           ELSE ClearRepos[n]]
            /\ stopChans' = [n \in Names |->
                               IF LastIndex(cfg, n) # 0
                               THEN Len(closed) + LastIndex(cfg, n)
                               ELSE ClearStopChans[n]]
            /\ gs' = gs \o [i \in 1..Len(cfg) |-> NewWorker(cfg[i], Len(closed) + i)]
            /\ wg' = wg + Len(cfg)
            /\ lastCfg' = cfg
            /\ completed' = [n \in Names |-> 0]
            /\ UNCHANGED panicked
    /\ UNCHANGED <<stopPc, loadsAtStop, ticks>>
    /\ UNCHANGED <<unknown, manualErr>>

\* Scheduler.LoadConfig called with a configuration that declares the
\* repositories cfg.
LoadConfig(cfg) ==
    /\ SchedLoadConfig(cfg)
    /\ UNCHANGED nonSchedVars

\* A worker that calls executeFetch again as soon as a call returns, without
\* waiting for a tick.
AfterExecRerun(g) == IF gs[g].kind = "timer" THEN "call" ELSE "done"

\* Where a goroutine goes when its executeFetch call returns: a worker back to
\* its select loop, a manual fetch to its end.
AfterExec(g) == IF gs[g].kind = "timer" THEN "select" ELSE "done"

\* A lookup that finds one and the same status under every name.
LookupShared(name) ==
    IF \E m \in Names : repos[m] # 0
    THEN repos[CHOOSE m \in Names : repos[m] # 0] ELSE 0

\* `status, exists := s.repos[name]`: the address of the status, 0 for none.
Lookup(name) == repos[name]

\* executeFetch, first critical section: look the name up; return at once when
\* it has no entry; else mark the status running and keep the pointer.
SchedExecBegin(g) ==
    /\ g \in DOMAIN gs
    /\ ~panicked
    /\ gs[g].pc = "call"
    /\ LET o == Lookup(gs[g].name) IN
         IF o = 0
         THEN /\ gs' = [gs EXCEPT ![g].pc = AfterExec(g), ![g].runs = @ + 1]
              /\ UNCHANGED heap
         ELSE /\ gs' = [gs EXCEPT ![g].pc = "fetching", ![g].st = o, ![g].epoch = loads,
                                  ![g].runs = @ + 1]
              /\ heap' = [heap EXCEPT ![o].IsRunning = TRUE]
    /\ UNCHANGED <<repos, stopChans, closed, wg, stopPc, panicked,
                   loads, lastCfg, dupLoaded, completed, loadsAtStop, ticks>>
    /\ UNCHANGED <<unknown, manualErr>>

\* executeFetch up to its call of fetcher.Fetch.
ExecBegin(g) ==
    /\ SchedExecBegin(g)
    /\ UNCHANGED nonSchedVars

\* Counters of a run that failed but is booked without its failure.
RecordResultDropFail(st, ok) ==
    [st EXCEPT !.IsRunning = FALSE, !.LastSuccess = ok,
               !.FetchCount = @ + 1,
               !.SuccessCount = IF ok THEN @ + 1 ELSE @]

\* Every run booked as a success.
RecordResultAsSuccess(st, ok) ==
    [st EXCEPT !.IsRunning = FALSE, !.LastSuccess = TRUE,
               !.FetchCount = @ + 1,
               !.SuccessCount = @ + 1]

\* A run booked twice in FetchCount and in its outcome counter.
RecordResultTwice(st, ok) ==
    [st EXCEPT !.IsRunning = FALSE, !.LastSuccess = ok,
               !.FetchCount = @ + 2,
               !.SuccessCount = IF ok THEN @ + 2 ELSE @,
               !.FailCount = IF ok THEN @ ELSE @ + 2]

\* executeFetch, second critical section: the status after a run with outcome ok.
RecordResult(st, ok) ==
    [st EXCEPT !.IsRunning = FALSE, !.LastSuccess = ok,
               !.FetchCount = @ + 1,
               !.SuccessCount = IF ok THEN @ + 1 ELSE @,
               !.FailCount = IF ok THEN @ ELSE @ + 1]

\* fetcher.Fetch returns with outcome ok (it has written its log entry), and
\* executeFetch books the result on the status it holds a pointer to.
SchedExecEnd(g, ok) ==
    /\ g \in DOMAIN gs
    /\ ~panicked
    /\ gs[g].pc = "fetching"
    /\ heap' = [heap EXCEPT ![gs[g].st] = RecordResult(@, ok)]
    /\ gs' = [gs EXCEPT ![g].pc = AfterExec(g),
                         ![g].fails = IF ok THEN @ ELSE @ + 1]
    /\ completed' = [completed EXCEPT ![gs[g].name] =
                        IF gs[g].epoch = loads THEN @ + 1 ELSE @]
    /\ UNCHANGED <<repos, stopChans, closed, wg, stopPc, panicked,
                   loads, lastCfg, dupLoaded, loadsAtStop, ticks>>
    /\ UNCHANGED <<unknown, manualErr>>

\* executeFetch from the return of fetcher.Fetch, whatever Fetch did.
ExecEnd(g, ok) ==
    /\ SchedExecEnd(g, ok)
    /\ UNCHANGED nonSchedVars

\* runScheduler, `case <-ticker.C`: the select takes a tick.  Go chooses among
\* the ready cases at random, so a tick can be taken with the stop channel
\* already closed.
SchedTick(g) ==
    /\ g \in DOMAIN gs
    /\ ~panicked
    /\ gs[g].kind = "timer" /\ gs[g].pc = "select"
    /\ ticks < MaxTicks
    /\ ticks' = ticks + 1
    /\ gs' = [gs EXCEPT ![g].pc = "call", ![g].ticked = @ + 1]
    /\ UNCHANGED <<repos, stopChans, heap, closed, wg, stopPc, panicked,
                   loads, lastCfg, dupLoaded, completed, loadsAtStop>>
    /\ UNCHANGED <<unknown, manualErr>>

\* A tick taken at any time.
Tick(g) ==
    /\ SchedTick(g)
    /\ UNCHANGED nonSchedVars

\* runScheduler, `case <-stopChan`: return; the deferred wg.Done and
\* ticker.Stop run.
ObserveStop(g) ==
    /\ g \in DOMAIN gs
    /\ ~panicked
    /\ gs[g].kind = "timer" /\ gs[g].pc = "select"
    /\ closed[gs[g].ch]
    /\ gs' = [gs EXCEPT ![g].pc = "exited"]
    /\ wg' = wg - 1
    /\ UNCHANGED <<repos, stopChans, heap, closed, stopPc, panicked,
                   loads, lastCfg, dupLoaded, completed, loadsAtStop, ticks>>
    /\ UNCHANGED <<unknown, manualErr>>
    /\ UNCHANGED nonSchedVars

\* A ManualFetch that starts its goroutine without looking the name up.
SpawnManualAlways(n) == Append(gs, NewManual(n))

\* The goroutines after ManualFetch(n): `go s.executeFetch` only when the
\* name has an entry in s.repos.
SpawnManual(n) == IF repos[n] = 0 THEN gs ELSE Append(gs, NewManual(n))

\* ManualFetch: look the name up under the read lock; no entry: return nil;
\* else start executeFetch in a goroutine of its own and return nil.
ManualFetch(n) ==
    /\ ~panicked
    /\ IF repos[n] = 0
       THEN unknown < MaxUnknown /\ unknown' = unknown + 1
       ELSE Len(gs) < MaxGoroutines /\ UNCHANGED unknown
    /\ gs' = SpawnManual(n)
    /\ manualErr' = manualErr
    /\ UNCHANGED <<repos, stopChans, heap, closed, wg, stopPc, panicked,
                   loads, lastCfg, dupLoaded, completed, loadsAtStop, ticks>>
    /\ UNCHANGED nonSchedVars

\* GetStatus: a copy of every status in s.repos, taken under the read lock.
GetStatus == [n \in {m \in Names : repos[m] # 0} |-> heap[repos[n]]]

\* A result entry that points to the scheduler's own RepoStatus.
StatusAlias(a) == [ref |-> a, val |-> heap[a]]

\* `statusCopy := *v; result[k] = &statusCopy`: a result entry points to a
\* fresh object (ref 0: not in the scheduler's heap) holding the value of v.
StatusCopy(a) == [ref |-> 0, val |-> heap[a]]

\* What a result entry points to holds now.
Deref(e) == IF e.ref = 0 THEN e.val ELSE heap[e.ref]

\* A caller calls GetStatus and keeps the returned map.
ReadStatus ==
    /\ ~panicked
    /\ snaps < MaxSnapshots
    /\ snaps' = snaps + 1
    /\ snap' = [n \in DOMAIN GetStatus |-> StatusCopy(repos[n])]
    /\ snapAt' = GetStatus
    /\ UNCHANGED callerWrote
    /\ UNCHANGED <<schedVars, syncVars, hookVars, cfgVars, watchVars, reloadVars,
                   fetchVars, clockVars, burstVars, bodyVars, lockVars, runVars>>

\* The caller writes to a record of the map it got (status.FetchCount++
\* through the returned pointer).
MutateSnapshot(n) ==
    /\ ~panicked
    /\ n \in DOMAIN snap
    /\ ~callerWrote
    /\ callerWrote' = TRUE
    /\ snapAt' = [snapAt EXCEPT ![n].FetchCount = @ + 1]
    /\ IF snap[n].ref = 0
       THEN /\ snap' = [snap EXCEPT ![n].val.FetchCount = @ + 1]
            /\ UNCHANGED heap
       ELSE /\ heap' = [heap EXCEPT ![snap[n].ref].FetchCount = @ + 1]
            /\ UNCHANGED snap
    /\ UNCHANGED snaps
    /\ UNCHANGED <<repos, stopChans, closed, gs, wg, stopPc, panicked,
                   loads, lastCfg, dupLoaded, completed, loadsAtStop, ticks,
                   unknown, manualErr>>
    /\ UNCHANGED <<syncVars, hookVars, cfgVars, watchVars, reloadVars, fetchVars, clockVars, burstVars, bodyVars, lockVars, runVars>>

\* Stop, first part: under s.mu close every registered stop channel (the
\* entries stay in the map), then call wg.Wait.
StopBegin ==
    /\ ~panicked
    /\ stopPc \in {"idle", "returned"}
    /\ loadsAtStop' = loads
    /\ IF ClosePanics
       THEN panicked' = TRUE /\ UNCHANGED <<closed, stopPc>>
       ELSE closed' = CloseRegistered /\ stopPc' = "waiting" /\ UNCHANGED panicked
    /\ UNCHANGED <<repos, stopChans, heap, gs, wg,
                   loads, lastCfg, dupLoaded, completed, ticks>>
    /\ UNCHANGED <<unknown, manualErr>>
    /\ UNCHANGED nonSchedVars

\* A Stop that does not wait for the workers.
WaitDoneNoWait == TRUE

\* `s.wg.Wait()` unblocks: the counter is zero.
WaitDone == wg = 0

\* Stop, second part: wg.Wait returns and so does Stop.
StopReturn ==
    /\ ~panicked
    /\ stopPc = "waiting"
    /\ WaitDone
    /\ stopPc' = "returned"
    /\ UNCHANGED <<repos, stopChans, heap, closed, gs, wg, panicked,
                   loads, lastCfg, dupLoaded, completed, loadsAtStop, ticks>>
    /\ UNCHANGED <<unknown, manualErr>>
    /\ UNCHANGED nonSchedVars

\* =================================================================
\* github-sync: sync.Syncer.syncIssue and its collaborators
\* =================================================================

\* Redmine issues (originating items).
Items == 1..MaxItems

\* Service instances running syncIssue against the same ledger, remote sink
\* and origin.
Procs == 1..MaxProcs

\* Values of the target-repo custom field, as character sequences: absent,
\* a name with no owner, and owner/repo.
Targets == {<<>>, <<"r">>, <<"o", "/", "r">>}

\* strings.Contains(s, c) for a one-character c.
Contains(s, c) == \E k \in 1..Len(s) : s[k] = c

\* An idle process.
IdleCall == [pc |-> "idle", issue |-> 0, number |-> 0, calledCreate |-> FALSE,
             pending |-> "none"]

\* The service at start: nothing synced, no error logged, any target values.
SyncInit ==
    /\ target \in [Items -> Targets]
    /\ urlField = [i \in Items |-> FALSE]
    /\ ledger = <<>>
    /\ created = <<>>
    /\ errors = <<>>
    /\ sp = [p \in Procs |-> IdleCall]
    /\ calls = <<>>
    /\ started = 0
    /\ faulted = FALSE

\* A lookup that never finds the issue.
IsSyncedNever(i) == FALSE

\* PostgresDB.IsSynced: some row of sync_records has this redmine_issue_id.
IsSynced(i) == \E k \in 1..Len(ledger) : ledger[k].issue = i

\* A plain INSERT into a table without the UNIQUE constraint.
RecordSyncInsert(i, n) == Append(ledger, [issue |-> i, number |-> n])

\* PostgresDB.RecordSync: INSERT ... ON CONFLICT (redmine_issue_id) DO UPDATE.
RecordSync(i, n) ==
    IF IsSynced(i)
    THEN [k \in 1..Len(ledger) |->
            IF ledger[k].issue = i THEN [issue |-> i, number |-> n] ELSE ledger[k]]
    ELSE Append(ledger, [issue |-> i, number |-> n])

\* redmine.Client.GetNewIssues, the filter it applies itself: the issues whose
\* GitHub-URL field is empty.
GetNewIssues == {i \in Items : ~urlField[i]}

\* The call of process p returns with result r; row tells what became of
\* its RecordError insert: "none" (not attempted), "written" or "failed".
ReturnedWith(p, r, row) ==
    /\ sp' = [sp EXCEPT ![p] = IdleCall]
    /\ calls' = Append(calls, [issue |-> sp[p].issue, result |-> r,
                               calledCreate |-> sp[p].calledCreate,
                               errorRow |-> row])

\* The call of process p returns with result r.
Returned(p, r) == ReturnedWith(p, r, "none")

\* syncProject: syncIssue is called for an issue GetNewIssues listed.
SyncBegin(p, i) ==
    /\ sp[p].pc = "idle"
    /\ started < MaxCalls
    /\ i \in GetNewIssues
    /\ started' = started + 1
    /\ sp' = [sp EXCEPT ![p] = [IdleCall EXCEPT !.pc = "check", !.issue = i]]
    /\ UNCHANGED <<target, urlField, ledger, created, errors, calls, faulted>>
    /\ UNCHANGED nonSyncVars

\* One service instance: a call starts when no other call is in progress.
SeqBegin(p, i) ==
    /\ \A q \in Procs : sp[q].pc = "idle"
    /\ SyncBegin(p, i)

\* A syncIssue without the empty-target check.
NoTargetNever(i) == FALSE

\* `if targetRepo == ""`: the issue carries no target.
NoTarget(i) == target[i] = <<>>

\* syncIssue steps 1 and 2: the ledger lookup (dbOk: the query succeeded),
\* then the target checks.
SyncCheck(p, dbOk) ==
    /\ sp[p].pc = "check"
    /\ LET i == sp[p].issue IN
         IF ~dbOk THEN Returned(p, "err-lookup") /\ faulted' = TRUE
         ELSE IF IsSynced(i) THEN Returned(p, "ok") /\ UNCHANGED faulted
         ELSE IF NoTarget(i) THEN Returned(p, "ok") /\ UNCHANGED faulted
         ELSE IF ~Contains(target[i], "/")
              THEN /\ sp' = [sp EXCEPT ![p].pc = "error", ![p].pending = "err-target"]
                   /\ UNCHANGED <<calls, faulted>>
         ELSE /\ sp' = [sp EXCEPT ![p].pc = "create"]
              /\ UNCHANGED <<calls, faulted>>
    /\ UNCHANGED <<target, urlField, ledger, created, errors, started>>
    /\ UNCHANGED nonSyncVars

\* syncIssue step 5: github.Client.CreateIssue (ok: the issue was created).
SyncCreate(p, ok) ==
    /\ sp[p].pc = "create"
    /\ IF ok
       THEN /\ created' = Append(created, sp[p].issue)
            /\ sp' = [sp EXCEPT ![p].pc = "writeback", ![p].calledCreate = TRUE,
                                ![p].number = Len(created) + 1]
            /\ UNCHANGED faulted
       ELSE /\ sp' = [sp EXCEPT ![p].pc = "error", ![p].calledCreate = TRUE,
                                ![p].pending = "err-create"]
            /\ faulted' = TRUE
            /\ UNCHANGED created
    /\ UNCHANGED <<target, urlField, ledger, errors, calls, started>>
    /\ UNCHANGED nonSyncVars

\* A handleError that writes no row.
RecordErrorNever(i, eok) == errors

\* PostgresDB.RecordError: INSERT INTO sync_errors (eok: the insert
\* succeeded).
RecordError(i, eok) == IF eok THEN Append(errors, i) ELSE errors

\* handleError: PostgresDB.RecordError appends a row to sync_errors (eok: the
\* insert succeeded; a failure is only logged), then syncIssue returns the error.
SyncHandleError(p, eok) ==
    /\ sp[p].pc = "error"
    /\ errors' = RecordError(sp[p].issue, eok)
    /\ faulted' = (faulted \/ ~eok)
    /\ ReturnedWith(p, sp[p].pending, IF eok THEN "written" ELSE "failed")
    /\ UNCHANGED <<target, urlField, ledger, created, started>>
    /\ UNCHANGED nonSyncVars

\* A syncIssue that gives up when the write-back fails.
AfterWriteBackAbort(ok) == IF ok THEN "record" ELSE "error"

\* Where syncIssue goes after UpdateCustomField: on to RecordSync, with or
\* without an error (`if err != nil { log.Printf(...) }`).
AfterWriteBack(ok) == "record"

\* syncIssue step 6: redmine.Client.UpdateCustomField writes the GitHub URL
\* back (ok: it succeeded); a failure is logged and the call goes on.
SyncWriteBack(p, ok) ==
    /\ sp[p].pc = "writeback"
    /\ urlField' = IF ok THEN [urlField EXCEPT ![sp[p].issue] = TRUE] ELSE urlField
    /\ faulted' = (faulted \/ ~ok)
    /\ sp' = [sp EXCEPT ![p].pc = AfterWriteBack(ok)]
    /\ UNCHANGED <<target, ledger, created, errors, calls, started>>
    /\ UNCHANGED nonSyncVars

\* syncIssue step 7: PostgresDB.RecordSync (ok: the statement succeeded).
SyncRecord(p, ok) ==
    /\ sp[p].pc = "record"
    /\ IF ok
       THEN /\ ledger' = RecordSync(sp[p].issue, sp[p].number)
            /\ Returned(p, "ok")
            /\ UNCHANGED faulted
       ELSE /\ Returned(p, "err-record")
            /\ faulted' = TRUE
            /\ UNCHANGED ledger
    /\ UNCHANGED <<target, urlField, created, errors, started>>
    /\ UNCHANGED nonSyncVars

\* The process dies in the middle of a call; the call never returns.
Crash(p) ==
    /\ sp[p].pc # "idle"
    /\ Returned(p, "crashed")
    /\ faulted' = TRUE
    /\ UNCHANGED <<target, urlField, ledger, created, errors, started>>
    /\ UNCHANGED nonSyncVars

\* Steps of a call in progress.
SyncStep ==
    \/ \E p \in Procs, dbOk \in BOOLEAN : SyncCheck(p, dbOk)
    \/ \E p \in Procs, ok \in BOOLEAN : SyncCreate(p, ok)
    \/ \E p \in Procs, eok \in BOOLEAN : SyncHandleError(p, eok)
    \/ \E p \in Procs, ok \in BOOLEAN : SyncWriteBack(p, ok)
    \/ \E p \in Procs, ok \in BOOLEAN : SyncRecord(p, ok)
    \/ \E p \in Procs : Crash(p)

\* Several instances (or a trigger racing the timer run): calls overlap.
SyncNext ==
    \/ \E p \in Procs, i \in Items : SyncBegin(p, i)
    \/ SyncStep

\* The github-sync service alone: the gitfetcher scheduler stays as constructed.
SyncServiceInit == SyncInit /\ SchedInit /\ HookIdle /\ ConfigIdle /\ ReloadIdle /\ FetchIdle
    /\ ClockIdle /\ BurstIdle /\ BodyIdle /\ LockIdle
    /\ RunIdle

SyncSpec == SyncServiceInit /\ [][SyncNext]_vars

\* One instance: calls follow one another.
SeqNext ==
    \/ \E p \in Procs, i \in Items : SeqBegin(p, i)
    \/ SyncStep

SeqSpec == SyncServiceInit /\ [][SeqNext]_vars

\* ----------------------------------------------------------------
\* Properties of the record-style executor
\* ----------------------------------------------------------------

\* GitHub issues created for originating issue i.
Creations(i) == Cardinality({k \in 1..Len(created) : created[k] = i})

\* Ledger rows of originating issue i.
Records(i) == Cardinality({k \in 1..Len(ledger) : ledger[k].issue = i})

\* The calls for issue i that are over, oldest first.
CallsOn(i) == SelectSeq(calls, LAMBDA c : c.issue = i)

\* The first two calls for issue i are over, the first returned success and
\* the second returned.
TwoCalls(i) ==
    /\ Len(CallsOn(i)) >= 2
    /\ CallsOn(i)[1].result = "ok"
    /\ CallsOn(i)[2].result # "crashed"

\* C3 as stated: two calls in sequence for one issue, the first successful,
\* make exactly one creation and one ledger record, and the second returns
\* success without calling CreateIssue.
C3_TwiceCreatesOnce ==
    \A i \in Items :
        TwoCalls(i) =>
            /\ Creations(i) = 1
            /\ Records(i) = 1
            /\ CallsOn(i)[2].result = "ok"
            /\ ~CallsOn(i)[2].calledCreate

\* C3 amended: the same for an issue whose target is owner/repo; the second
\* call returns success unless its ledger lookup itself fails.  For an issue
\* with no target both calls create and record nothing.
C3_TwiceCreatesOnceWithTarget ==
    \A i \in Items :
        TwoCalls(i) =>
            /\ ~CallsOn(i)[2].calledCreate
            /\ CallsOn(i)[2].result \in {"ok", "err-lookup"}
            /\ Contains(target[i], "/") =>
                  /\ CallsOn(i)[1].calledCreate
                  /\ Creations(i) = 1
                  /\ Records(i) = 1
            /\ target[i] = <<>> => (Creations(i) = 0 /\ Records(i) = 0)

\* C3 witness: an issue with target owner/repo was created and recorded by
\* the first call, and the second call returned success without creating.
C3_Witness ==
    \E i \in Items :
        /\ TwoCalls(i)
        /\ Contains(target[i], "/")
        /\ CallsOn(i)[1].calledCreate
        /\ CallsOn(i)[2].result = "ok"

\* C4: with calls for one issue overlapping and nothing failing, at most
\* one GitHub issue is created for it.
C4_RaceCreatesOnce ==
    ~faulted => \A i \in Items : Creations(i) <= 1

\* C5: over any sequence of runs, crashes and failed writes included, when
\* no call is in progress every issue has at most one creation and every
\* creation has its one ledger record.
C5_CreatedOnceRecordedOnce ==
    (\A p \in Procs : sp[p].pc = "idle") =>
        \A i \in Items : Creations(i) <= 1 /\ Records(i) = Creations(i)

\* =================================================================
\* github-sync: webhook.Server
\* =================================================================

\* Keys: the configured secret and a key of somebody else.
Keys == {"k1", "k2"}

\* Values of s.secret: none configured, or the key k1.
Secrets == {"", "k1"}

\* Request bodies: JSON objects with issue_id and project_identifier, a JSON
\* object without them (hasFields FALSE), and bytes that are not JSON.
NotJSON == [json |-> FALSE, hasFields |-> FALSE, issue_id |-> 0, project_identifier |-> ""]

Bodies ==
    {[json |-> TRUE, hasFields |-> TRUE, issue_id |-> 1, project_identifier |-> "p1"],
     [json |-> TRUE, hasFields |-> TRUE, issue_id |-> 2, project_identifier |-> "p2"],
     [json |-> TRUE, hasFields |-> FALSE, issue_id |-> 0, project_identifier |-> ""],
     NotJSON}

\* A header value is a sequence of pieces of text; a piece is a digest, the
\* prefix "sha256=", or other text.
\* hex.EncodeToString(HMAC-SHA256(key, body)): one digest per key and body,
\* different for different keys or bodies.
Hmac(key, body) == [text |-> "digest", key |-> key, body |-> body]

\* The piece "sha256=".
Sha256Prefix == [text |-> "sha256=", key |-> "", body |-> NotJSON]

\* Digest parts a signature header can carry: a digest of some body under
\* some key, or text that is no digest.
Digests ==
    {Hmac(k, b) : k \in Keys, b \in Bodies}
        \cup {[text |-> "invalid", key |-> "", body |-> NotJSON]}

\* Values of the X-Webhook-Signature header: absent (<<>>), the bare prefix,
\* a digest, and digests behind one or two "sha256=" prefixes.
Headers ==
    {<<>>, <<Sha256Prefix>>}
        \cup {<<d>> : d \in Digests}
        \cup {<<Sha256Prefix, d>> : d \in Digests}
        \cup {<<Sha256Prefix, Sha256Prefix, d>> : d \in Digests}

\* strings.TrimPrefix(h, p): h without one leading p.
TrimPrefix(h, p) == IF Len(h) >= 1 /\ h[1] = p THEN Tail(h) ELSE h

\* A verification that accepts a digest of the body under any key.
VerifyAnyKey(key, body, signature) ==
    /\ signature # <<>>
    /\ \E k \in Keys : TrimPrefix(signature, Sha256Prefix) = <<Hmac(k, body)>>

\* Server.verifySignature: an empty header fails; else the header without its
\* "sha256=" prefix must equal the hex HMAC of the body under the secret.
VerifySignature(key, body, signature) ==
    /\ signature # <<>>
    /\ TrimPrefix(signature, Sha256Prefix) = <<Hmac(key, body)>>

\* A decoding that fills in no field (a payload struct whose JSON tags match
\* no key of the object).
UnmarshalNoFields(body) ==
    [err |-> ~body.json, IssueID |-> 0, ProjectIdentifier |-> ""]

\* json.Unmarshal(body, &payload): an error for bytes that are not JSON; a
\* field the object lacks keeps its zero value.
Unmarshal(body) ==
    IF ~body.json THEN [err |-> TRUE, IssueID |-> 0, ProjectIdentifier |-> ""]
    ELSE [err |-> FALSE,
          IssueID |-> IF body.hasFields THEN body.issue_id ELSE 0,
          ProjectIdentifier |-> IF body.hasFields THEN body.project_identifier ELSE ""]

\* The status handleIssueChanged answers with: 405 for a method other than
\* POST, 400 when the body cannot be read, 401 when a secret is set and the
\* signature does not verify, 400 when the body is not JSON, else 200.
StatusOf(method, readOk, body, signature) ==
    IF method # "POST" THEN 405
    ELSE IF ~readOk THEN 400
    ELSE IF secret # "" /\ ~VerifySignature(secret, body, signature) THEN 401
    ELSE IF Unmarshal(body).err THEN 400
    ELSE 200

\* NewServer: the secret of the configuration, no request handled yet.
HookInit ==
    /\ secret \in Secrets
    /\ reqs = <<>>
    /\ pending = {}
    /\ triggers = <<>>

\* handleIssueChanged for one request: every early return answers an error
\* and starts nothing; the last branch starts the goroutine that will call
\* the trigger and answers 200 without waiting for it.
HandleIssueChanged(method, readOk, body, signature) ==
    /\ Len(reqs) < MaxRequests
    /\ LET status == StatusOf(method, readOk, body, signature) IN
         /\ reqs' = Append(reqs, [method |-> method, readOk |-> readOk, body |-> body,
                                  signature |-> signature, status |-> status])
         /\ pending' = IF status = 200 THEN pending \cup {Len(reqs) + 1} ELSE pending
    /\ UNCHANGED <<secret, triggers>>
    /\ UNCHANGED nonHookVars

\* The goroutine of request r runs:
\* s.syncTrigger.SyncSpecificIssue(payload.IssueID, payload.ProjectIdentifier).
RunTrigger(r) ==
    /\ r \in pending
    /\ pending' = pending \ {r}
    /\ triggers' = Append(triggers,
                          [req |-> r,
                           issueID |-> Unmarshal(reqs[r].body).IssueID,
                           projectIdentifier |-> Unmarshal(reqs[r].body).ProjectIdentifier])
    /\ UNCHANGED <<secret, reqs>>
    /\ UNCHANGED nonHookVars

HookNext ==
    \/ \E m \in {"POST", "GET"}, readOk \in BOOLEAN, b \in Bodies, h \in Headers :
          HandleIssueChanged(m, readOk, b, h)
    \/ \E r \in 1..MaxRequests : RunTrigger(r)

\* =================================================================
\* gitfetcher: package config
\* =================================================================

\* Characters of an interval string: digits and a unit letter.
Digits == {"0", "5"}
Letters == {"m"}

\* The number a digit character stands for.
DigitValue(ch) == IF ch = "0" THEN 0 ELSE 5

\* The interval strings of a configuration.
Intervals == SeqsOf(Digits \cup Letters, 0, MaxIntervalLen)

\* Keys of time's unitMap that the letters can spell: "m".
UnitMap == {<<"m">>}

\* Length of the longest prefix of s made of members of S.
RECURSIVE LeadingRun(_, _)
LeadingRun(s, S) ==
    IF s # <<>> /\ s[1] \in S THEN 1 + LeadingRun(Tail(s), S) ELSE 0

\* The loop of time.ParseDuration over a non-empty rest s: digits (at least
\* one), then a unit (the run of non-digits, at least one, which must be a
\* key of unitMap), then the same again until s is used up.
RECURSIVE ParseUnits(_)
ParseUnits(s) ==
    LET d == LeadingRun(s, Digits)
        r == SubSeq(s, d + 1, Len(s))
        u == LeadingRun(r, Letters)
    IN  /\ d >= 1
        /\ u >= 1
        /\ SubSeq(r, 1, u) \in UnitMap
        /\ (u = Len(r) \/ ParseUnits(SubSeq(r, u + 1, Len(r))))

\* The decimal number the digit string s spells.
RECURSIVE NumberOf(_)
NumberOf(s) ==
    IF s = <<>> THEN 0
    ELSE 10 * NumberOf(SubSeq(s, 1, Len(s) - 1)) + DigitValue(s[Len(s)])

\* The duration the loop of time.ParseDuration adds up over s, in minutes
\* (the only unit the letters spell), for an s that ParseUnits accepts.
RECURSIVE DurationOf(_)
DurationOf(s) ==
    LET d == LeadingRun(s, Digits)
        r == SubSeq(s, d + 1, Len(s))
        u == LeadingRun(r, Letters)
    IN  NumberOf(SubSeq(s, 1, d))
          + (IF u = Len(r) THEN 0 ELSE DurationOf(SubSeq(r, u + 1, Len(r))))

\* time.ParseDuration(s): 0 for the string "0"; an error for the empty string
\* and for a string that is not a sequence of number-unit pairs; else the sum
\* of the pairs (d, in minutes; 0 with an error).
ParseDuration(s) ==
    IF s = <<"0">> THEN [err |-> FALSE, d |-> 0]
    ELSE IF s # <<>> /\ ParseUnits(s) THEN [err |-> FALSE, d |-> DurationOf(s)]
    ELSE [err |-> TRUE, d |-> 0]

\* RepoConfig.ParseInterval.
ParseInterval(repo) == ParseDuration(repo.Interval)

\* The RepoConfig values.
RepoConfigs ==
    [Name : {"", "repo-a", "repo-b"}, URL : {"", "u"}, LocalPath : {"", "p"},
     Interval : Intervals]

\* The http_port values: unset, a port, and a number that is no port.
Ports == {0, 8080, 70000}

\* The Config values.
ConfigValues ==
    [Repos : SeqsOf(RepoConfigs, 0, MaxRepos), HTTPPort : Ports,
     SSHKeyPath : {""}, LogPath : {""}]

\* The zero Config (what a nil *Config stands for here).
NilConfig == [Repos |-> <<>>, HTTPPort |-> 0, SSHKeyPath |-> "", LogPath |-> ""]

\* The top-level scalar keys of the YAML text (the yaml tags of Config).
ScalarKeys == {"ssh_key_path", "http_port", "log_path"}

\* Contents of the configuration file: YAML text (cfg: the values the text
\* gives; absent: the scalar keys the text leaves out), or text that is not
\* YAML; NoFile: there is no file.
NotYAML == [exists |-> TRUE, yaml |-> FALSE, cfg |-> NilConfig, absent |-> {}]
NoFile == [exists |-> FALSE, yaml |-> FALSE, cfg |-> NilConfig, absent |-> {}]
Files ==
    {[exists |-> TRUE, yaml |-> TRUE, cfg |-> c, absent |-> {}] : c \in ConfigValues}
        \cup {NotYAML}

\* yaml.Unmarshal(data, &cfg) into a zero Config: a key the text leaves out
\* keeps the zero value of its field.
YamlUnmarshal(f) ==
    [Repos |-> f.cfg.Repos,
     HTTPPort |-> IF "http_port" \in f.absent THEN 0 ELSE f.cfg.HTTPPort,
     SSHKeyPath |-> IF "ssh_key_path" \in f.absent THEN "" ELSE f.cfg.SSHKeyPath,
     LogPath |-> IF "log_path" \in f.absent THEN "" ELSE f.cfg.LogPath]

\* An error of the package: the message (kind) and what the format string
\* interpolates into it: the index of the entry, its interval string, the
\* port; name is the repository name interpolated, "" as no format string of
\* the package has one.
Error(kind, index, interval, port) ==
    [kind |-> kind, index |-> index, interval |-> interval, port |-> port, name |-> ""]

\* nil.
NoError == Error("", -1, <<>>, 0)

\* The message of the first check of the loop body that entry repo fails,
\* "" when it passes all four.
EntryError(repo) ==
    IF repo.Name = "" THEN "name is required"
    ELSE IF repo.URL = "" THEN "url is required"
    ELSE IF repo.LocalPath = "" THEN "local_path is required"
    ELSE IF ParseInterval(repo).err THEN "invalid interval"
    ELSE ""

\* A validation that does not look at the intervals.
ValidateNoInterval(c) ==
    IF Len(c.Repos) = 0 THEN Error("no repositories configured", -1, <<>>, 0)
    ELSE IF c.HTTPPort <= 0 \/ c.HTTPPort > 65535
         THEN Error("invalid http_port", -1, <<>>, c.HTTPPort)
    ELSE NoError

\* Config.Validate: no repositories; else the first failing check of the
\* first failing entry, with its zero-based index; else the port range.
Validate(c) ==
    IF Len(c.Repos) = 0 THEN Error("no repositories configured", -1, <<>>, 0)
    ELSE IF \E i \in 1..Len(c.Repos) : EntryError(c.Repos[i]) # ""
         THEN LET i == CHOOSE k \in 1..Len(c.Repos) :
                          /\ EntryError(c.Repos[k]) # ""
                          /\ \A j \in 1..(k - 1) : EntryError(c.Repos[j]) = ""
              IN  Error(EntryError(c.Repos[i]), i - 1,
                        IF EntryError(c.Repos[i]) = "invalid interval"
                        THEN c.Repos[i].Interval ELSE <<>>, 0)
    ELSE IF c.HTTPPort <= 0 \/ c.HTTPPort > 65535
         THEN Error("invalid http_port", -1, <<>>, c.HTTPPort)
    ELSE NoError

\* A LoadConfig that defaults the port only.
SetDefaultsPortOnly(c) == [c EXCEPT !.HTTPPort = IF @ = 0 THEN 8080 ELSE @]

\* The defaults LoadConfig sets: http_port 8080 and log_path "./logs" when
\* unset.
SetDefaults(c) ==
    [c EXCEPT !.HTTPPort = IF @ = 0 THEN 8080 ELSE @,
              !.LogPath = IF @ = "" THEN "./logs" ELSE @]

\* config.LoadConfig on file content f: read, yaml.Unmarshal, defaults,
\* Validate; a nil Config with every error.
LoadConfigFile(f, readOk) ==
    IF ~f.exists \/ ~readOk
    THEN [err |-> Error("failed to read config file", -1, <<>>, 0), cfg |-> NilConfig]
    ELSE IF ~f.yaml
    THEN [err |-> Error("failed to parse config", -1, <<>>, 0), cfg |-> NilConfig]
    ELSE IF Validate(SetDefaults(YamlUnmarshal(f))) # NoError
    THEN [err |-> Validate(SetDefaults(YamlUnmarshal(f))), cfg |-> NilConfig]
    ELSE [err |-> NoError, cfg |-> SetDefaults(YamlUnmarshal(f))]

\* yaml.Marshal(cfg): YAML text with every key of Config (no field is tagged
\* omitempty) and the values of cfg.
Marshal(c) == [exists |-> TRUE, yaml |-> TRUE, cfg |-> c, absent |-> {}]

\* The package is handed one configuration; no file yet, no call made.
ConfigInit ==
    /\ input \in Files
    /\ disk = NoFile
    /\ result = [op |-> "none", err |-> NoError, cfg |-> NilConfig]
    /\ httpStatus = 0
    /\ fileWritten = FALSE

\* input.cfg.Validate() is called.
ValidateCall ==
    /\ input.yaml
    /\ result' = [op |-> "Validate", err |-> Validate(input.cfg), cfg |-> input.cfg]
    /\ httpStatus' = 0
    /\ fileWritten' = FALSE
    /\ UNCHANGED <<input, disk>>
    /\ UNCHANGED nonCfgVars

\* config.SaveConfig(path, &input.cfg): Validate, yaml.Marshal, os.WriteFile
\* (writeOk: the write succeeded; a failed write leaves the file as it was).
SaveConfigCall(writeOk) ==
    /\ input.yaml
    /\ LET err == IF Validate(input.cfg) # NoError THEN Validate(input.cfg)
                  ELSE IF ~writeOk THEN Error("failed to write config file", -1, <<>>, 0)
                  ELSE NoError
       IN  /\ result' = [op |-> "SaveConfig", err |-> err, cfg |-> input.cfg]
           /\ disk' = IF err = NoError THEN Marshal(input.cfg) ELSE disk
           /\ fileWritten' = (err = NoError)
    /\ httpStatus' = 0
    /\ UNCHANGED input
    /\ UNCHANGED nonCfgVars

\* Somebody edits the file by hand: it now holds input.
EditFile ==
    /\ disk # input
    /\ disk' = input
    /\ result' = [op |-> "edit", err |-> NoError, cfg |-> NilConfig]
    /\ httpStatus' = 0
    /\ fileWritten' = TRUE
    /\ UNCHANGED input
    /\ UNCHANGED nonCfgVars

\* config.LoadConfig(path) is called (readOk: os.ReadFile succeeded).
LoadConfigCall(readOk) ==
    /\ result' = [op |-> "LoadConfig", err |-> LoadConfigFile(disk, readOk).err,
                  cfg |-> LoadConfigFile(disk, readOk).cfg]
    /\ httpStatus' = 0
    /\ fileWritten' = FALSE
    /\ UNCHANGED <<input, disk>>
    /\ UNCHANGED nonCfgVars

\* config.SaveConfig(path, cfg) with the cfg the last LoadConfig returned.
SaveLoadedCall(writeOk) ==
    /\ result.op = "LoadConfig"
    /\ result.err = NoError
    /\ LET err == IF Validate(result.cfg) # NoError THEN Validate(result.cfg)
                  ELSE IF ~writeOk THEN Error("failed to write config file", -1, <<>>, 0)
                  ELSE NoError
       IN  /\ result' = [op |-> "SaveLoaded", err |-> err, cfg |-> result.cfg]
           /\ disk' = IF err = NoError THEN Marshal(result.cfg) ELSE disk
           /\ fileWritten' = (err = NoError)
    /\ httpStatus' = 0
    /\ UNCHANGED input
    /\ UNCHANGED nonCfgVars

\* The error SaveConfig returns for cfg (writeOk: os.WriteFile succeeded).
SaveError(c, writeOk) ==
    IF Validate(c) # NoError THEN Validate(c)
    ELSE IF ~writeOk THEN Error("failed to write config file", -1, <<>>, 0)
    ELSE NoError

\* A handler that hands the bound configuration to SaveConfig unvalidated.
UpdateStatusNoValidate(bindOk, c, writeOk) ==
    IF ~bindOk THEN 400
    ELSE IF SaveError(c, writeOk) # NoError THEN 500
    ELSE 200

\* Handler.handleUpdateConfig, the status of its response: 400 when the body
\* does not bind, 400 when the bound configuration fails Validate, 500 when
\* SaveConfig fails, else 200.
UpdateStatus(bindOk, c, writeOk) ==
    IF ~bindOk THEN 400
    ELSE IF Validate(c) # NoError THEN 400
    ELSE IF SaveError(c, writeOk) # NoError THEN 500
    ELSE 200

\* POST /api/config with a body that is input (input.yaml: the body binds to
\* a Config, input.cfg).  SaveConfig is reached with status 200 and 500 only.
HandleUpdateConfig(writeOk) ==
    LET st == UpdateStatus(input.yaml, input.cfg, writeOk)
        err == IF ~input.yaml THEN Error("Invalid JSON", -1, <<>>, 0)
               ELSE SaveError(input.cfg, writeOk)
    IN  /\ httpStatus' = st
        /\ result' = [op |-> "POST", err |-> err, cfg |-> input.cfg]
        /\ fileWritten' = (st \in {200, 500} /\ err = NoError)
        /\ disk' = IF st \in {200, 500} /\ err = NoError THEN Marshal(input.cfg) ELSE disk
        /\ UNCHANGED input
        /\ UNCHANGED nonCfgVars

\* What a SaveConfig call or a POST body can carry: nothing that binds, or a
\* configuration of up to MaxRepos entries, named or not, whose intervals
\* parse or not, with every port.
SavedConfigs ==
    {NotYAML} \cup
    {Marshal([Repos |-> r, HTTPPort |-> port, SSHKeyPath |-> "", LogPath |-> ""]) :
        r \in SeqsOf([Name : {"", "repo-a"}, URL : {"u"}, LocalPath : {"p"},
                      Interval : {<<"5", "m">>, <<"5">>}], 0, MaxRepos),
        port \in Ports}

\* The configuration file the service was started with.
StartFile ==
    Marshal([Repos |-> <<[Name |-> "repo-b", URL |-> "u", LocalPath |-> "p",
                          Interval |-> <<"5", "m">>]>>,
             HTTPPort |-> 8080, SSHKeyPath |-> "", LogPath |-> "./logs"])

\* The service runs, with or without its configuration file in place; one
\* configuration is about to be saved.
SaveInit ==
    /\ input \in SavedConfigs
    /\ disk \in {NoFile, StartFile}
    /\ result = [op |-> "none", err |-> NoError, cfg |-> NilConfig]
    /\ httpStatus = 0
    /\ fileWritten = FALSE

SaveNext ==
    \/ \E writeOk \in BOOLEAN : SaveConfigCall(writeOk)
    \/ \E writeOk \in BOOLEAN : HandleUpdateConfig(writeOk)
    \/ \E readOk \in BOOLEAN : LoadConfigCall(readOk)

\* Hand-written configuration files: complete entries, every port, ssh key
\* path and log path, each scalar key present or left out.
RoundTripFiles ==
    {f \in [exists : {TRUE}, yaml : {TRUE},
            cfg : [Repos : SeqsOf([Name : Names, URL : {"u"}, LocalPath : {"p"},
                                   Interval : {<<"5", "m">>, <<"5">>}], 0, MaxRepos),
                   HTTPPort : Ports, SSHKeyPath : {"", "k"},
                   LogPath : {"", "./logs", "l"}],
            absent : SUBSET ScalarKeys] :
        YamlUnmarshal(f) = f.cfg}

\* A file is written by hand, then loaded, saved and loaded again.
RoundTripInit ==
    /\ input \in RoundTripFiles
    /\ disk = NoFile
    /\ result = [op |-> "none", err |-> NoError, cfg |-> NilConfig]
    /\ httpStatus = 0
    /\ fileWritten = FALSE

RoundTripNext ==
    \/ EditFile
    \/ \E readOk \in BOOLEAN : LoadConfigCall(readOk)
    \/ \E writeOk \in BOOLEAN : SaveLoadedCall(writeOk)

ConfigNext ==
    \/ ValidateCall
    \/ \E writeOk \in BOOLEAN : SaveConfigCall(writeOk)
    \/ EditFile
    \/ \E readOk \in BOOLEAN : LoadConfigCall(readOk)

\* =================================================================
\* gitfetcher: main, the configuration file watcher
\* =================================================================

\* What the watched file can hold after a write: text that is not YAML, or a
\* configuration of complete entries whose intervals are "5m" or "5".
WatchedFiles ==
    {NotYAML} \cup
    {Marshal([Repos |-> r, HTTPPort |-> 8080, SSHKeyPath |-> "", LogPath |-> ""]) :
        r \in SeqsOf([Name : Names, URL : {"u"}, LocalPath : {"p"},
                      Interval : {<<"5", "m">>, <<"5">>}], 0, MaxRepos)}

\* Configuration files of complete entries whose intervals parse: "5m", "0m".
TimerFiles ==
    {Marshal([Repos |-> r, HTTPPort |-> 8080, SSHKeyPath |-> "", LogPath |-> ""]) :
        r \in SeqsOf([Name : Names, URL : {"u"}, LocalPath : {"p"},
                      Interval : {<<"5", "m">>, <<"0", "m">>}], 0, MaxRepos)}

\* The names cfg.Repos declares, in order.
RepoNames(c) == [i \in 1..Len(c.Repos) |-> c.Repos[i].Name]

\* `interval, _ := repo.ParseInterval()` for each entry of cfg.Repos, in
\* order: what Scheduler.LoadConfig hands to the workers it starts.
RepoIntervals(c) == [i \in 1..Len(c.Repos) |-> ParseInterval(c.Repos[i]).d]

\* A watcher that goes on to Scheduler.LoadConfig whatever LoadConfig returned.
ApplyReloadAlways(err) == TRUE

\* `if err != nil { log; continue }`: the watcher goes on to
\* Scheduler.LoadConfig only when config.LoadConfig returned no error.
ApplyReload(err) == err = NoError

\* watchConfigFile, one Write event with the file holding f: config.LoadConfig,
\* then sched.LoadConfig(cfg) unless it failed.  (main loads the initial
\* configuration by the same two calls.)
WatcherReload(f, readOk) ==
    LET res == LoadConfigFile(f, readOk) IN
        /\ ~panicked
        /\ failedReloads' = IF res.err # NoError
                            THEN Append(failedReloads, loads) ELSE failedReloads
        /\ Len(failedReloads') <= MaxFailedReloads
        /\ IF ApplyReload(res.err)
           THEN /\ SchedLoadConfig(RepoNames(res.cfg))
                /\ tickers' = IF Len(gs') > Len(gs)
                              THEN tickers \o RepoIntervals(res.cfg) ELSE tickers
           ELSE UNCHANGED <<schedVars, tickers>>

\* One Write event handled when the file holds f.
WatchReload(f, readOk) ==
    /\ WatcherReload(f, readOk)
    /\ UNCHANGED <<syncVars, readerVars, hookVars, cfgVars, reloadVars, fetchVars,
                   clockVars, burstVars, bodyVars, lockVars, runVars>>

\* runScheduler, `ticker := time.NewTicker(interval)`, its first statement
\* after the deferred wg.Done: NewTicker panics on a non-positive interval
\* ("non-positive interval for NewTicker"), which ends the process.
NewTickerPanics(g) ==
    /\ g \in DOMAIN gs
    /\ ~panicked
    /\ gs[g].kind = "timer" /\ gs[g].pc = "call" /\ gs[g].runs = 0
    /\ tickers[g] <= 0
    /\ panicked' = TRUE
    /\ UNCHANGED <<repos, stopChans, heap, closed, gs, wg, stopPc, loads, lastCfg,
                   dupLoaded, completed, loadsAtStop, ticks, unknown, manualErr>>
    /\ UNCHANGED <<syncVars, readerVars, hookVars, cfgVars, watchVars, reloadVars,
                   fetchVars, clockVars, burstVars, bodyVars, lockVars, runVars>>

\* The first executeFetch of a worker whose ticker was created.
WatchExecBegin(g) ==
    /\ g \in DOMAIN tickers
    /\ tickers[g] > 0
    /\ ExecBegin(g)

\* The scheduler driven by the watcher.
WatchNext ==
    \/ \E f \in WatchedFiles, readOk \in BOOLEAN : WatchReload(f, readOk)
    \/ \E g \in 1..MaxGoroutines : WatchExecBegin(g)
    \/ \E g \in 1..MaxGoroutines, ok \in BOOLEAN : ExecEnd(g, ok)
    \/ \E g \in 1..MaxGoroutines : Tick(g)
    \/ \E g \in 1..MaxGoroutines : ObserveStop(g)

\* The scheduler driven by the watcher over files whose intervals all parse.
TimerNext ==
    \/ \E f \in TimerFiles : WatchReload(f, TRUE)
    \/ \E g \in 1..MaxGoroutines : NewTickerPanics(g)
    \/ \E g \in 1..MaxGoroutines : WatchExecBegin(g)
    \/ \E g \in 1..MaxGoroutines, ok \in BOOLEAN : ExecEnd(g, ok)
    \/ \E g \in 1..MaxGoroutines : Tick(g)
    \/ \E g \in 1..MaxGoroutines : ObserveStop(g)

\* =================================================================
\* github-sync: configuration reload (config.watchConfig, sync.Scheduler)
\* =================================================================

\* The sections of a configuration file a reload looks at: redmine.url,
\* redmine.api_key, the number of redmine.projects, github.token and
\* sync.interval; version tells the files apart.
SyncConfigs(v) ==
    [version : {v}, url : {"", "u", "u2"}, apiKey : {"", "k"}, projects : 0..1,
     token : {"", "t"}, interval : Intervals]

\* The configuration main starts with: valid, with an interval that parses
\* (main exits on any other).
InitialConfig ==
    [version |-> 0, url |-> "u", apiKey |-> "k", projects |-> 1, token |-> "t",
     interval |-> <<"5", "m">>]

\* github-sync Config.Validate: the required fields; it does not parse
\* sync.interval.
SyncValidate(c) ==
    IF c.url = "" THEN "redmine.url is required"
    ELSE IF c.apiKey = "" THEN "redmine.api_key is required"
    ELSE IF c.projects = 0 THEN "at least one project is required"
    ELSE IF c.token = "" THEN "github.token is required"
    ELSE ""

\* The defaults Validate fills in: sync.interval "5m" when empty.
SyncDefaults(c) == [c EXCEPT !.interval = IF @ = <<>> THEN <<"5", "m">> ELSE @]

\* Config.GetSyncInterval: time.ParseDuration(c.Sync.Interval).
GetSyncInterval(c) == ParseDuration(c.interval)

\* A configuration is invalid in some part: Validate rejects it, or its
\* sync interval does not parse as a duration.
InvalidInSomePart(c) ==
    SyncValidate(c) # "" \/ GetSyncInterval(SyncDefaults(c)).err

\* The service after main has loaded its configuration and built the
\* Syncer and the Scheduler from it.
ReloadInit ==
    /\ globalConfig = InitialConfig
    /\ syncerCfg = InitialConfig
    /\ syncInterval = [version |-> 0, value |-> InitialConfig.interval]
    /\ reloadChan = 0
    /\ changes = 0
    /\ invalid = {}

\* A callback that notifies nobody.
SendReloadNever(ch) == ch

\* `select { case reloadChan <- struct{}{}: default: }` on the channel of
\* capacity 1: one notification is pending afterwards, whether the send went
\* through or the channel was full.
SendReload(ch) == 1

\* The OnConfigChange callback for a file that now holds c (unmarshalOk:
\* viper.Unmarshal succeeded): return on an Unmarshal or Validate error;
\* else replace the Redmine, GitHub and Sync sections of globalConfig and
\* send on reloadChan unless a notification is pending.
OnConfigChange(c, unmarshalOk) ==
    /\ changes < MaxChanges
    /\ c.version = changes + 1
    /\ changes' = changes + 1
    /\ invalid' = IF ~unmarshalOk \/ InvalidInSomePart(c)
                  THEN invalid \cup {c.version} ELSE invalid
    /\ IF unmarshalOk /\ SyncValidate(c) = ""
       THEN /\ globalConfig' = SyncDefaults(c)
            /\ reloadChan' = SendReload(reloadChan)
       ELSE UNCHANGED <<globalConfig, reloadChan>>
    /\ UNCHANGED <<syncerCfg, syncInterval>>
    /\ UNCHANGED nonReloadVars

\* Scheduler.Start, `case <-s.reloadCh`: Syncer.UpdateConfig(GetConfig())
\* first, then GetSyncInterval; on its error `continue`; else set s.interval
\* and reset the ticker when the interval differs.
SchedulerReload ==
    /\ reloadChan = 1
    /\ reloadChan' = 0
    /\ syncerCfg' = globalConfig
    /\ syncInterval' = IF GetSyncInterval(globalConfig).err THEN syncInterval
                   ELSE IF GetSyncInterval(globalConfig).d
                               # ParseDuration(syncInterval.value).d
                        THEN [version |-> globalConfig.version,
                              value |-> globalConfig.interval]
                   ELSE syncInterval
    /\ UNCHANGED <<globalConfig, changes, invalid>>
    /\ UNCHANGED nonReloadVars

\* The file watcher reports a change of the configuration file.
ConfigChange ==
    \E c \in SyncConfigs(changes + 1), unmarshalOk \in BOOLEAN :
        OnConfigChange(c, unmarshalOk)

ReloadNext ==
    \/ ConfigChange
    \/ SchedulerReload

\* Syncer.Run begins (Scheduler.Start: at once, or `case <-ticker.C`): the
\* range expression s.config.Redmine.Projects is evaluated once, and s.config
\* is the object config.globalConfig points to (LoadConfig returns the
\* pointer it stores; UpdateConfig is handed GetConfig(), the same pointer).
RunBegin ==
    /\ runPc = "idle"
    /\ runs < MaxRuns
    /\ runPc' = "running"
    /\ runs' = runs + 1
    /\ runProjects' = globalConfig.version
    /\ seen' = <<>>
    /\ UNCHANGED nonRunVars

\* syncIssue for the next item of the run: the project and its custom-field
\* IDs are the copy the range made, the title format is read from
\* s.config.Sync.TitleFormat now.
RunItem ==
    /\ runPc = "running"
    /\ Len(seen) < MaxRunItems
    /\ seen' = Append(seen, [projects |-> runProjects,
                            title |-> globalConfig.version])
    /\ UNCHANGED <<runPc, runs, runProjects>>
    /\ UNCHANGED nonRunVars

\* Syncer.Run returns.
RunEnd ==
    /\ runPc = "running"
    /\ runPc' = "idle"
    /\ UNCHANGED <<runs, runProjects, seen>>
    /\ UNCHANGED nonRunVars

\* Scheduler.Start takes `case <-s.reloadCh` in its select, which it reaches
\* only between two runs.
RunReload == runPc = "idle" /\ SchedulerReload

\* Valid configurations main can start with: sync.interval "5m" or "55m".
StartConfigs ==
    {[InitialConfig EXCEPT !.interval = i] : i \in {<<"5", "m">>, <<"5", "5", "m">>}}

\* The service after main has loaded one of them.
CoalesceInit ==
    /\ globalConfig \in StartConfigs
    /\ syncerCfg = globalConfig
    /\ syncInterval = [version |-> 0, value |-> globalConfig.interval]
    /\ reloadChan = 0
    /\ changes = 0
    /\ invalid = {}

\* The file changes to a valid configuration: Validate accepts it and its
\* sync interval is a positive duration.
ValidChange ==
    \E c \in SyncConfigs(changes + 1) :
        /\ ~InvalidInSomePart(c)
        /\ GetSyncInterval(SyncDefaults(c)).d > 0
        /\ OnConfigChange(c, TRUE)

\* The service while its configuration file changes to valid configurations.
CoalesceNext ==
    \/ ValidChange
    \/ RunReload
    \/ RunBegin
    \/ RunItem
    \/ RunEnd

\* The service while its configuration file changes.
RunNext ==
    \/ ConfigChange
    \/ RunReload
    \/ RunBegin
    \/ RunItem
    \/ RunEnd

\* =================================================================
\* Specifications
\* =================================================================


\* The github-sync service is not running in the scheduler's specification.
SyncIdle ==
    /\ target = <<>>
    /\ urlField = <<>>
    /\ ledger = <<>>
    /\ created = <<>>
    /\ errors = <<>>
    /\ sp = <<>>
    /\ calls = <<>>
    /\ started = 0
    /\ faulted = FALSE

Init == SchedInit /\ SyncIdle /\ HookIdle /\ ConfigIdle /\ ReloadIdle /\ FetchIdle
    /\ ClockIdle /\ BurstIdle /\ BodyIdle /\ LockIdle
    /\ RunIdle

\* The webhook server alone: scheduler and executor stay as constructed.
HookServiceInit == HookInit /\ SchedInit /\ SyncIdle /\ ConfigIdle /\ ReloadIdle /\ FetchIdle
    /\ ClockIdle /\ BurstIdle /\ BodyIdle /\ LockIdle
    /\ RunIdle

HookSpec == HookServiceInit /\ [][HookNext]_vars

\* The config package alone.
ConfigServiceInit == ConfigInit /\ SchedInit /\ SyncIdle /\ HookIdle /\ ReloadIdle /\ FetchIdle
    /\ ClockIdle /\ BurstIdle /\ BodyIdle /\ LockIdle
    /\ RunIdle

ConfigSpec == ConfigServiceInit /\ [][ConfigNext]_vars

\* The config package on hand-written files.
RoundTripServiceInit == RoundTripInit /\ SchedInit /\ SyncIdle /\ HookIdle /\ ReloadIdle /\ FetchIdle
    /\ ClockIdle /\ BurstIdle /\ BodyIdle /\ LockIdle
    /\ RunIdle

RoundTripSpec == RoundTripServiceInit /\ [][RoundTripNext]_vars

\* SaveConfig and the POST /api/config handler.
SaveServiceInit == SaveInit /\ SchedInit /\ SyncIdle /\ HookIdle /\ ReloadIdle /\ FetchIdle
    /\ ClockIdle /\ BurstIdle /\ BodyIdle /\ LockIdle
    /\ RunIdle

SaveSpec == SaveServiceInit /\ [][SaveNext]_vars

\* The reload path of the github-sync service alone.
ReloadServiceInit == ReloadInit /\ SchedInit /\ SyncIdle /\ HookIdle /\ ConfigIdle /\ FetchIdle
    /\ ClockIdle /\ BurstIdle /\ BodyIdle /\ LockIdle
    /\ RunIdle

ReloadSpec == ReloadServiceInit /\ [][ReloadNext]_vars

\* The issue-sync service with its runs.
RunSpec == ReloadServiceInit /\ [][RunNext]_vars

CoalesceServiceInit ==
    CoalesceInit /\ SchedInit /\ SyncIdle /\ HookIdle /\ ConfigIdle /\ FetchIdle
    /\ ClockIdle /\ BurstIdle /\ BodyIdle /\ LockIdle /\ RunIdle

\* The Scheduler is not stopped: a run in progress returns, and the select of
\* Scheduler.Start takes a pending notification.
CoalesceFairness == WF_vars(RunReload) /\ WF_vars(RunEnd)

CoalesceSpec == CoalesceServiceInit /\ [][CoalesceNext]_vars /\ CoalesceFairness

\* A started goroutine runs.
HookFairness == \A r \in 1..MaxRequests : WF_vars(RunTrigger(r))

HookLive == HookServiceInit /\ [][HookNext]_vars /\ HookFairness

Next ==
    \/ \E cfg \in Configs : LoadConfig(cfg)
    \/ \E g \in 1..MaxGoroutines : ExecBegin(g)
    \/ \E g \in 1..MaxGoroutines, ok \in BOOLEAN : ExecEnd(g, ok)
    \/ \E g \in 1..MaxGoroutines : Tick(g)
    \/ \E g \in 1..MaxGoroutines : ObserveStop(g)
    \/ \E n \in Names : ManualFetch(n)
    \/ StopBegin
    \/ StopReturn

Spec == Init /\ [][Next]_vars

\* The scheduling the Go runtime and the claims' assumptions give: a runnable
\* goroutine runs (ExecBegin, StopReturn), every fetcher.Fetch call returns
\* (ExecEnd), and a select that is entered again and again with its stop
\* channel closed takes the stop case in the end (Go picks among the ready
\* cases uniformly at random).
Fairness ==
    /\ \A g \in 1..MaxGoroutines :
          /\ WF_vars(ExecBegin(g))
          /\ WF_vars(\E ok \in BOOLEAN : ExecEnd(g, ok))
          /\ SF_vars(ObserveStop(g))
    /\ WF_vars(StopReturn)

SpecLive == Init /\ [][Next]_vars /\ Fairness

\* Scheduling in which only the goroutines of repo-b are sure to run and only
\* their fetcher.Fetch calls are sure to return: a fetch of repo-a may hang
\* for ever.
FairnessOfRepoB ==
    \A g \in 1..MaxGoroutines :
        /\ WF_vars(g \in DOMAIN gs /\ gs[g].name = "repo-b" /\ ExecBegin(g))
        /\ WF_vars(g \in DOMAIN gs /\ gs[g].name = "repo-b"
                      /\ \E ok \in BOOLEAN : ExecEnd(g, ok))

IndependentSpec == Init /\ [][Next]_vars /\ FairnessOfRepoB

\* The scheduler with a caller of GetStatus (the HTTP status handler).
StatusNext ==
    \/ \E cfg \in Configs : LoadConfig(cfg)
    \/ \E g \in 1..MaxGoroutines : ExecBegin(g)
    \/ \E g \in 1..MaxGoroutines, ok \in BOOLEAN : ExecEnd(g, ok)
    \/ \E g \in 1..MaxGoroutines : Tick(g)
    \/ \E g \in 1..MaxGoroutines : ObserveStop(g)
    \/ \E n \in Names : ManualFetch(n)
    \/ ReadStatus
    \/ \E n \in Names : MutateSnapshot(n)

StatusSpec == Init /\ [][StatusNext]_vars

WatchSpec == Init /\ [][WatchNext]_vars

\* The watcher and the workers, timers included.
TimerSpec == Init /\ [][TimerNext]_vars

\* =================================================================
\* gitfetcher: main, bursts of Write events
\* =================================================================

\* main has loaded nothing yet; the file holds some configuration and no
\* event is waiting.
BurstInit ==
    /\ watched \in WatchedFiles
    /\ events = 0
    /\ edits = 0

\* One edit of the configuration file that leaves it holding f: the editor
\* writes it in k steps, and fsnotify reports a Write event for each.
EditFileInSteps(f, k) ==
    /\ edits < MaxEdits
    /\ edits' = edits + 1
    /\ watched' = f
    /\ events' = events + k
    /\ UNCHANGED <<schedVars, syncVars, readerVars, hookVars, cfgVars, watchVars,
                   reloadVars, fetchVars, clockVars, bodyVars, lockVars, runVars>>

\* watchConfigFile, `case event, ok := <-watcher.Events` with a Write event:
\* config.LoadConfig of the file as it is now, then sched.LoadConfig unless
\* the load failed.
HandleWriteEvent(readOk) ==
    /\ events > 0
    /\ events' = events - 1
    /\ WatcherReload(watched, readOk)
    /\ UNCHANGED <<watched, edits>>
    /\ UNCHANGED <<syncVars, readerVars, hookVars, cfgVars, reloadVars, fetchVars,
                   clockVars, bodyVars, lockVars, runVars>>

\* The watcher under edits of the file, and the workers it starts.
BurstNext ==
    \/ \E f \in WatchedFiles, k \in 1..MaxBurst : EditFileInSteps(f, k)
    \/ \E readOk \in BOOLEAN : HandleWriteEvent(readOk)
    \/ \E g \in 1..MaxGoroutines : WatchExecBegin(g)
    \/ \E g \in 1..MaxGoroutines, ok \in BOOLEAN : ExecEnd(g, ok)
    \/ \E g \in 1..MaxGoroutines : ObserveStop(g)

BurstServiceInit ==
    BurstInit /\ SchedInit /\ SyncIdle /\ HookIdle /\ ConfigIdle /\ ReloadIdle
    /\ FetchIdle /\ ClockIdle /\ BodyIdle /\ LockIdle
    /\ RunIdle

BurstSpec == BurstServiceInit /\ [][BurstNext]_vars

\* =================================================================
\* gitfetcher: s.mu around fetcher.Fetch
\* =================================================================

\* An executeFetch that keeps s.mu locked while fetcher.Fetch runs.
HeldDuringFetchByCaller(g) == g

\* executeFetch calls `s.mu.Unlock()` before `s.fetcher.Fetch`: nobody holds
\* the lock on account of the fetch of goroutine g.
HeldDuringFetch(g) == 0

\* LoadConfig takes s.mu for the whole call.
LockLoadConfig(cfg) == mu = 0 /\ LoadConfig(cfg)

\* ManualFetch looks the name up under s.mu.RLock.
LockManualFetch(n) == mu = 0 /\ ManualFetch(n)

\* GetStatus copies the statuses under s.mu.RLock.
LockReadStatus == mu = 0 /\ ReadStatus

\* executeFetch takes s.mu for its first critical section and goes on to
\* fetcher.Fetch.
LockExecBegin(g) ==
    /\ mu = 0
    /\ SchedExecBegin(g)
    /\ mu' = IF gs'[g].pc = "fetching" THEN HeldDuringFetch(g) ELSE 0
    /\ UNCHANGED <<syncVars, readerVars, hookVars, cfgVars, watchVars, reloadVars,
                   fetchVars, clockVars, burstVars, bodyVars, runVars>>

\* fetcher.Fetch returns; executeFetch takes s.mu for its second critical
\* section and releases it.
LockExecEnd(g, ok) ==
    /\ mu \in {0, g}
    /\ SchedExecEnd(g, ok)
    /\ mu' = 0
    /\ UNCHANGED <<syncVars, readerVars, hookVars, cfgVars, watchVars, reloadVars,
                   fetchVars, clockVars, burstVars, bodyVars, runVars>>

\* The scheduler, its workers and a caller of GetStatus, with s.mu.
LockNext ==
    \/ \E cfg \in Configs : LockLoadConfig(cfg)
    \/ \E g \in 1..MaxGoroutines : LockExecBegin(g)
    \/ \E g \in 1..MaxGoroutines, ok \in BOOLEAN : LockExecEnd(g, ok)
    \/ \E g \in 1..MaxGoroutines : Tick(g)
    \/ \E n \in Names : LockManualFetch(n)
    \/ LockReadStatus

LockSpec == Init /\ [][LockNext]_vars

\* =================================================================
\* gitfetcher: fetcher.GitFetcher
\* =================================================================

\* What a local_path can hold: nothing, a mirror clone of the repository, or
\* something that is not a git repository.
PathStates == {"absent", "mirror", "other"}

\* `_, err := os.Stat(localPath); os.IsNotExist(err)`.
IsNotExist(found) == found = "absent"

\* Whether the git command of op can exit without error when the local path
\* holds state: `git clone --mirror` needs a destination that is not already
\* a repository, `git -C localPath fetch` needs a repository.
CanSucceed(op, state) ==
    IF op = "clone" THEN state # "mirror" ELSE state = "mirror"

\* GitFetcher.Clone: runs `git clone --mirror url localPath`; Success is false
\* when the command returned an error ("clone failed: ..."), true otherwise.
Clone(cmdOk) == [op |-> "clone", Success |-> cmdOk]

\* A Fetch that runs `git fetch` whatever os.Stat found.
FetchNeverClones(found, cmdOk) == [op |-> "fetch", Success |-> cmdOk]

\* GitFetcher.Fetch: when os.Stat reports that localPath does not exist, the
\* result of Clone; otherwise runs `git -C localPath fetch --all --prune`, and
\* Success is false when that command returned an error, true otherwise.
Fetch(found, cmdOk) ==
    IF IsNotExist(found) THEN Clone(cmdOk)
    ELSE [op |-> "fetch", Success |-> cmdOk]

\* The entry of fetchOps of the Fetch call goroutine g is in, 0 for none.
OpenOp(g) ==
    IF \E k \in 1..Len(fetchOps) : fetchOps[k].g = g /\ ~fetchOps[k].done
    THEN CHOOSE k \in 1..Len(fetchOps) : fetchOps[k].g = g /\ ~fetchOps[k].done
    ELSE 0

\* executeFetch up to the os.Stat of the Fetch it calls.  (executeFetch hands
\* Fetch the name and the local path of the repository; the URL Clone needs is
\* that of the same configuration entry.)
FetchBegin(g) ==
    /\ Len(fetchOps) < MaxFetches
    /\ SchedExecBegin(g)
    /\ fetchOps' = IF gs'[g].pc = "fetching"
                   THEN Append(fetchOps,
                               [g |-> g, name |-> gs[g].name, st |-> gs'[g].st,
                                found |-> localPaths[gs[g].name], done |-> FALSE,
                                op |-> "none", cmdOk |-> FALSE, Success |-> FALSE])
                   ELSE fetchOps
    /\ UNCHANGED localPaths
    /\ UNCHANGED <<syncVars, readerVars, hookVars, cfgVars, watchVars, reloadVars,
                   clockVars, burstVars, bodyVars, lockVars, runVars>>

\* The git command of the Fetch call of goroutine g exits, without error iff
\* cmdOk; Fetch returns its Result and executeFetch books it.  A clone that
\* succeeded has made the local path a mirror; any other command leaves what
\* the path held.
FetchEnd(g, cmdOk) ==
    /\ OpenOp(g) # 0
    /\ LET k == OpenOp(g)
           r == Fetch(fetchOps[k].found, cmdOk)
           n == fetchOps[k].name
       IN  /\ cmdOk => CanSucceed(r.op, localPaths[n])
           /\ SchedExecEnd(g, r.Success)
           /\ fetchOps' = [fetchOps EXCEPT ![k] =
                              [@ EXCEPT !.done = TRUE, !.op = r.op,
                                        !.cmdOk = cmdOk, !.Success = r.Success]]
           /\ localPaths' = IF r.op = "clone" /\ cmdOk
                            THEN [localPaths EXCEPT ![n] = "mirror"]
                            ELSE localPaths
    /\ UNCHANGED <<syncVars, readerVars, hookVars, cfgVars, watchVars, reloadVars,
                   clockVars, burstVars, bodyVars, lockVars, runVars>>

\* Somebody removes the local path of repository n.
RemovePath(n) ==
    /\ localPaths[n] # "absent"
    /\ localPaths' = [localPaths EXCEPT ![n] = "absent"]
    /\ UNCHANGED fetchOps
    /\ UNCHANGED <<schedVars, syncVars, readerVars, hookVars, cfgVars, watchVars,
                   reloadVars, clockVars, burstVars, bodyVars, lockVars, runVars>>

\* The local paths of the configured repositories hold anything when the
\* service starts; no Fetch call has been made.
FetchInit ==
    /\ localPaths \in [Names -> PathStates]
    /\ fetchOps = <<>>

\* The scheduler with the fetcher it drives.
FetchNext ==
    \/ \E cfg \in Configs : LoadConfig(cfg)
    \/ \E n \in Names : ManualFetch(n)
    \/ \E g \in 1..MaxGoroutines : FetchBegin(g)
    \/ \E g \in 1..MaxGoroutines, cmdOk \in BOOLEAN : FetchEnd(g, cmdOk)
    \/ \E g \in 1..MaxGoroutines : Tick(g)
    \/ \E n \in Names : RemovePath(n)

FetchServiceInit ==
    FetchInit /\ SchedInit /\ SyncIdle /\ HookIdle /\ ConfigIdle /\ ReloadIdle
    /\ ClockIdle /\ BurstIdle /\ BodyIdle /\ LockIdle
    /\ RunIdle

FetchSpec == FetchServiceInit /\ [][FetchNext]_vars

\* =================================================================
\* gitfetcher: the workers' tickers and NextFetch
\* =================================================================

\* The interval every configured repository declares, in units of the clock.
Interval == 2

\* NewScheduler at time 0: no ticker, no status, nothing has run.
ClockInit ==
    /\ now = 0
    /\ tickerAt = [g \in 1..MaxGoroutines |-> 0]
    /\ tickerC = [g \in 1..MaxGoroutines |-> 0]
    /\ nextFetch = <<>>
    /\ ended = [g \in 1..MaxGoroutines |-> -1]

\* Scheduler.LoadConfig: every status it allocates has `NextFetch: time.Now()`.
ClockLoadConfig(cfg) ==
    /\ SchedLoadConfig(cfg)
    /\ nextFetch' = IF Len(heap') > Len(heap)
                    THEN nextFetch \o [i \in 1..Len(cfg) |-> now]
                    ELSE nextFetch
    /\ UNCHANGED <<now, tickerAt, tickerC, ended>>
    /\ UNCHANGED <<syncVars, readerVars, hookVars, cfgVars, watchVars, reloadVars,
                   fetchVars, burstVars, bodyVars, lockVars, runVars>>

\* runScheduler up to its first executeFetch: `time.NewTicker(interval)`
\* delivers first one interval from now; or a later executeFetch begins.
ClockExecBegin(g) ==
    /\ SchedExecBegin(g)
    /\ tickerAt' = IF gs[g].kind = "timer" /\ gs[g].runs = 0
                   THEN [tickerAt EXCEPT ![g] = now + Interval]
                   ELSE tickerAt
    /\ UNCHANGED <<now, tickerC, nextFetch, ended>>
    /\ UNCHANGED <<syncVars, readerVars, hookVars, cfgVars, watchVars, reloadVars,
                   fetchVars, burstVars, bodyVars, lockVars, runVars>>

\* executeFetch books the result; when the name still has an entry
\* (getRepoConfig), `status.NextFetch = time.Now().Add(interval)` on the
\* status it holds.
ClockExecEnd(g, ok) ==
    /\ SchedExecEnd(g, ok)
    /\ nextFetch' = IF Lookup(gs[g].name) # 0
                    THEN [nextFetch EXCEPT ![gs[g].st] = now + Interval]
                    ELSE nextFetch
    /\ ended' = [ended EXCEPT ![g] = now]
    /\ UNCHANGED <<now, tickerAt, tickerC>>
    /\ UNCHANGED <<syncVars, readerVars, hookVars, cfgVars, watchVars, reloadVars,
                   fetchVars, burstVars, bodyVars, lockVars, runVars>>

\* `case <-ticker.C`: the select takes the tick waiting in the channel.
ClockTick(g) ==
    /\ tickerC[g] = 1
    /\ SchedTick(g)
    /\ tickerC' = [tickerC EXCEPT ![g] = 0]
    /\ UNCHANGED <<now, tickerAt, nextFetch, ended>>
    /\ UNCHANGED <<syncVars, readerVars, hookVars, cfgVars, watchVars, reloadVars,
                   fetchVars, burstVars, bodyVars, lockVars, runVars>>

\* Some goroutine has a step to take that takes no time: a call of
\* executeFetch to begin, a select with a tick or a closed stop channel.
Urgent ==
    \E g \in DOMAIN gs :
        \/ gs[g].pc = "call"
        \/ /\ gs[g].kind = "timer" /\ gs[g].pc = "select"
           /\ \/ tickerC[g] = 1 /\ ticks < MaxTicks
              \/ closed[gs[g].ch]

\* One unit of time passes while fetches run and workers wait.  A ticker
\* that is due puts a tick in its channel (dropped when one is waiting) and
\* is due again one interval later, whatever its worker is doing.
Advance ==
    /\ ~panicked
    /\ now < MaxTime
    /\ ~Urgent
    /\ now' = now + 1
    /\ tickerC' = [g \in 1..MaxGoroutines |->
                     IF tickerAt[g] = now + 1 /\ gs[g].pc # "exited"
                     THEN 1 ELSE tickerC[g]]
    /\ tickerAt' = [g \in 1..MaxGoroutines |->
                      IF tickerAt[g] = now + 1 THEN now + 1 + Interval
                      ELSE tickerAt[g]]
    /\ UNCHANGED <<nextFetch, ended>>
    /\ UNCHANGED <<schedVars, syncVars, readerVars, hookVars, cfgVars, watchVars,
                   reloadVars, fetchVars, burstVars, bodyVars, lockVars, runVars>>

\* The scheduler and its workers in time.
ClockNext ==
    \/ \E cfg \in Configs : ClockLoadConfig(cfg)
    \/ \E g \in 1..MaxGoroutines : ClockExecBegin(g)
    \/ \E g \in 1..MaxGoroutines, ok \in BOOLEAN : ClockExecEnd(g, ok)
    \/ \E g \in 1..MaxGoroutines : ClockTick(g)
    \/ \E g \in 1..MaxGoroutines : ObserveStop(g)
    \/ Advance

ClockServiceInit ==
    ClockInit /\ SchedInit /\ SyncIdle /\ HookIdle /\ ConfigIdle /\ ReloadIdle
    /\ FetchIdle /\ BurstIdle /\ BodyIdle /\ LockIdle
    /\ RunIdle

ClockSpec == ClockServiceInit /\ [][ClockNext]_vars

\* =================================================================
\* github-sync: Syncer.buildGitHubIssueBody
\* =================================================================

\* The redmine section of a configuration file: url is required by Validate,
\* display_url is "" when the key is absent or empty.
RedmineFiles == [url : {"http://redmine:3000", "https://redmine.example.com",
                        "http://localhost:3000"},
                 display_url : {"", "http://192.168.1.100:3000",
                                "https://issues.example.com"}]

\* The Redmine issues handed to buildGitHubIssueBody.
Issues == [ID : 1..MaxIssueID, Description : {"", "text", "more text"}]

\* viper.Unmarshal into RedmineConfig: the struct has the fields URL, APIKey
\* and Projects; a key of the file that names no field is dropped.
UnmarshalRedmine(f) == [URL |-> f.url]

\* Syncer.buildGitHubIssueBody, as the pieces the Sprintf calls put together:
\* the header, the description or "*No description*", and the footer
\* `Synced from Redmine: <s.config.Redmine.URL>/issues/<ID>`.
buildGitHubIssueBody(c, issue) ==
    <<"From Redmine Issue #", issue.ID,
      IF issue.Description # "" THEN issue.Description ELSE "*No description*",
      "Synced from Redmine: ", c.URL, "/issues/", issue.ID>>

\* The base URL of the origin link of a body.
LinkBase(b) == b[5]

\* assert.Contains(body, piece).
BodyContains(b, piece) == \E k \in 1..Len(b) : b[k] = piece

\* The service has loaded some configuration file; no body is built yet.
BodyInit ==
    /\ redmineFile \in RedmineFiles
    /\ bodyIssue = <<>>
    /\ issueBody = <<>>

\* syncIssue builds the body of the GitHub issue it creates for issue.
BuildBody(issue) ==
    /\ bodyIssue' = issue
    /\ issueBody' = buildGitHubIssueBody(UnmarshalRedmine(redmineFile), issue)
    /\ UNCHANGED redmineFile
    /\ UNCHANGED <<schedVars, syncVars, readerVars, hookVars, cfgVars, watchVars,
                   reloadVars, fetchVars, clockVars, burstVars, lockVars, runVars>>

BodyNext == \E issue \in Issues : BuildBody(issue)

BodyServiceInit ==
    BodyInit /\ SchedInit /\ SyncIdle /\ HookIdle /\ ConfigIdle /\ ReloadIdle
    /\ FetchIdle /\ ClockIdle /\ BurstIdle /\ LockIdle
    /\ RunIdle

BodySpec == BodyServiceInit /\ [][BodyNext]_vars

\* ----------------------------------------------------------------
\* Properties of the gitfetcher scheduler
\* ----------------------------------------------------------------

\* Goroutines inside fetcher.Fetch for identity n.
Fetching(n) == {g \in DOMAIN gs : gs[g].pc = "fetching" /\ gs[g].name = n}

\* Timer workers of identity n that have not left runScheduler.
LiveWorkers(n) ==
    {g \in DOMAIN gs : gs[g].kind = "timer" /\ gs[g].name = n /\ gs[g].pc # "exited"}

\* Names of a repository list.
NamesOf(cfg) == {cfg[i] : i \in DOMAIN cfg}

\* C1: for one identity with its one timer worker (a single load of distinct
\* identities) and any ManualFetch calls, at most one fetcher.Fetch call for
\* that identity is in progress at any moment.
C1_OneFetchPerIdentity ==
    (loads <= 1 /\ ~dupLoaded) => \A n \in Names : Cardinality(Fetching(n)) <= 1

\* C2: across LoadConfig calls with distinct identities, no two workers of
\* one identity are running at the same time: when a fresh worker exists, the
\* previous one has exited.
C2_OneWorkerPerIdentity ==
    ~dupLoaded => \A n \in Names : Cardinality(LiveWorkers(n)) <= 1

\* C6: in every status GetStatus can return, SuccessCount + FailCount equals
\* FetchCount.
C6_CountersAddUp ==
    \A n \in DOMAIN GetStatus :
        GetStatus[n].SuccessCount + GetStatus[n].FailCount = GetStatus[n].FetchCount

\* C6 witness: after a reload, an identity with a success and a failure
\* booked while another fetch of it is in flight.
C6_Witness ==
    \E n \in DOMAIN GetStatus :
        /\ loads = 2
        /\ GetStatus[n].SuccessCount >= 1
        /\ GetStatus[n].FailCount >= 1
        /\ Fetching(n) # {}

\* C7: with no reload in between, FetchCount of a live identity is the number
\* of executions begun and completed for it: each is counted once.
C7_FetchCountIsExecutions ==
    \A n \in DOMAIN GetStatus : GetStatus[n].FetchCount = completed[n]

\* C7 witness: the worker's run and two manual fetches of one identity have
\* all completed.
C7_Witness ==
    \E n \in DOMAIN GetStatus :
        /\ GetStatus[n].FetchCount = 3
        /\ Cardinality({g \in DOMAIN gs : gs[g].kind = "manual" /\ gs[g].name = n
                                             /\ gs[g].pc = "done"}) = 2

\* C8: GetStatus has exactly the identities of the last loaded configuration,
\* each under its own name, in every state a reader can see.
C8_StatusMatchesConfig ==
    /\ DOMAIN GetStatus = NamesOf(lastCfg)
    /\ \A n \in DOMAIN GetStatus : GetStatus[n].Name = n

\* C8 witness: a reload has replaced repo-a by repo-b while repo-a's worker
\* is still inside a fetch.
C8_Witness ==
    /\ loads = 2
    /\ lastCfg = <<"repo-b">>
    /\ Fetching("repo-a") # {}

\* C9: once a reload has removed an identity, its worker is stopped: no
\* worker is inside fetcher.Fetch for an identity that has no entry.
C9_RemovedWorkerStopped ==
    \A g \in DOMAIN gs :
        (gs[g].kind = "timer" /\ gs[g].pc = "fetching") => repos[gs[g].name] # 0

\* Every timer worker ever started has left runScheduler.
AllWorkersExited == \A g \in DOMAIN gs : gs[g].kind = "timer" => gs[g].pc = "exited"

\* C10: Stop closes the stop channel of every registered worker before it
\* waits, returns only when every timer worker ever started has exited, and,
\* for configurations of distinct identities and no reload during the Stop,
\* a Stop that is waiting returns in the end.
C10_StopWaitsAndReturns ==
    /\ [][(stopPc # "waiting" /\ stopPc' = "waiting")
            => \A c \in Registered' : closed'[c]]_vars
    /\ [][(stopPc = "waiting" /\ stopPc' = "returned") => AllWorkersExited']_vars
    /\ (stopPc = "waiting" /\ ~dupLoaded)
          ~> (stopPc = "returned" \/ loads # loadsAtStop)

\* C10 witness: Stop has returned after two loads, one worker superseded by
\* the reload and one signalled by Stop itself.
C10_Witness ==
    /\ stopPc = "returned"
    /\ loads = 2
    /\ \E g \in DOMAIN gs : gs[g].kind = "timer" /\ gs[g].ch \notin Registered
    /\ \E g \in DOMAIN gs : gs[g].kind = "timer" /\ gs[g].ch \in Registered

\* C11: with one LoadConfig call made while Stop is in progress (fetches
\* return, identities distinct), a Stop that is waiting returns in the end.
C11_StopReturnsDespiteLoad ==
    (stopPc = "waiting" /\ ~dupLoaded)
        ~> (stopPc = "returned" \/ loads > loadsAtStop + 1)

\* C12: at the moment Stop returns no fetcher.Fetch call is in progress,
\* whichever goroutine started it (a worker's initial run, a tick, or a
\* manual fetch).
C12_StopFinishesCurrentRun ==
    [][(stopPc = "waiting" /\ stopPc' = "returned")
          => \A n \in Names : Fetching(n)' = {}]_vars

\* C13: a worker calls executeFetch once on start and once more for every
\* tick it takes, one call at a time: a tick is taken only with the previous
\* call (the initial one first) returned; a call reaches fetcher.Fetch
\* unless the identity has no entry; and a worker that has observed its stop
\* signal does nothing more.
C13_InitialRunThenTicks ==
    /\ [](\A g \in DOMAIN gs :
            gs[g].kind = "timer" =>
                gs[g].runs = gs[g].ticked + (IF gs[g].pc = "call" THEN 0 ELSE 1))
    /\ [][\A g \in DOMAIN gs :
            gs[g].kind = "timer" =>
                /\ gs'[g].ticked > gs[g].ticked
                      => (gs[g].pc = "select" /\ gs[g].runs >= 1 /\ gs'[g].pc = "call")
                /\ gs'[g].runs > gs[g].runs
                      => (gs'[g].pc = "fetching" \/ repos[gs[g].name] = 0)
                /\ gs[g].pc = "exited" => gs'[g] = gs[g]]_vars

\* C13 witness: a worker has done its initial run and a tick-driven run and
\* has then observed its stop signal.
C13_Witness ==
    \E g \in DOMAIN gs :
        /\ gs[g].kind = "timer"
        /\ gs[g].pc = "exited"
        /\ gs[g].ticked = 1
        /\ gs[g].runs = 2

\* C14: a ManualFetch call for a name with no entry returns nil, starts no
\* goroutine and leaves the maps, every status and every counter as they were.
C14_UnknownManualFetchIsNoOp ==
    [][unknown' > unknown =>
          /\ ~manualErr'
          /\ UNCHANGED <<repos, stopChans, heap, closed, gs, wg, stopPc, panicked>>]_vars

\* C14 witness: a ManualFetch found no entry for an identity that a reload
\* had removed while its worker was still inside a fetch.
C14_Witness ==
    /\ unknown = 1
    /\ \E g \in DOMAIN gs : gs[g].pc = "fetching" /\ repos[gs[g].name] = 0
    /\ \E n \in Names : repos[n] # 0

\* C15: every record of a map GetStatus returned keeps the value it had when
\* GetStatus returned, whatever the workers and reloads do afterwards (only
\* the caller's own writes change it); a write of the caller to its record
\* changes no RepoStatus of the scheduler; and a returned record is
\* consistent: its SuccessCount + FailCount is its FetchCount.
C15_StatusIsACopy ==
    /\ [](\A n \in DOMAIN snap : Deref(snap[n]) = snapAt[n])
    /\ [](~callerWrote =>
            \A n \in DOMAIN snap :
                Deref(snap[n]).SuccessCount + Deref(snap[n]).FailCount
                    = Deref(snap[n]).FetchCount)
    /\ [][callerWrote' # callerWrote => heap' = heap]_vars

\* C15 witness: the caller holds a record of an identity, has written to it,
\* and a worker has booked a run on that identity's live status since.
C15_Witness ==
    \E n \in DOMAIN snap :
        /\ callerWrote
        /\ repos[n] # 0
        /\ snapAt[n].FetchCount = 1
        /\ heap[repos[n]].FetchCount = 2

\* ----------------------------------------------------------------
\* Properties of the webhook server
\* ----------------------------------------------------------------

\* The header carries the hex HMAC of the body under the configured secret,
\* bare or in the wire form "sha256=<digest>".
SignatureProves(h, body) ==
    h \in {<<Hmac(secret, body)>>, <<Sha256Prefix, Hmac(secret, body)>>}

\* Request q is a POST that does not prove knowledge of the configured secret.
BadlySignedRequest(q) ==
    /\ secret # ""
    /\ q.method = "POST"
    /\ ~SignatureProves(q.signature, q.body)

\* The r-th request handled is such a POST.
BadlySigned(r) == BadlySignedRequest(reqs[r])

\* SyncSpecificIssue calls made for request r.
TriggersOf(r) == {k \in 1..Len(triggers) : triggers[k].req = r}

\* C16 as stated: with a secret configured, every POST whose signature is
\* missing or wrong is answered 401 and never reaches the trigger.
C16_BadSignatureIs401 ==
    \A r \in DOMAIN reqs :
        BadlySigned(r) =>
            (reqs[r].status = 401 /\ r \notin pending /\ TriggersOf(r) = {})

\* C16 amended: such a POST is rejected, with 401 when its body was read
\* and with 400 when the body could not be read (the read comes before the
\* signature check); it never reaches the trigger, and handling it leaves
\* the trigger log, the scheduler and the ledger as they were.
C16_BadSignatureRejected ==
    /\ [](\A r \in DOMAIN reqs :
            BadlySigned(r) =>
                /\ reqs[r].status = (IF reqs[r].readOk THEN 401 ELSE 400)
                /\ r \notin pending
                /\ TriggersOf(r) = {})
    /\ [][(Len(reqs') > Len(reqs) /\ BadlySignedRequest(reqs'[Len(reqs')]))
            => UNCHANGED <<pending, triggers, nonHookVars>>]_vars

\* C16 witness: with the secret k1 configured, a POST signed under another
\* key was answered 401, and a correctly signed one reached the trigger.
C16_Witness ==
    /\ secret = "k1"
    /\ Len(reqs) = 2
    /\ reqs[1].method = "POST" /\ reqs[1].readOk /\ reqs[1].body.json
    /\ reqs[1].signature = <<Sha256Prefix, Hmac("k2", reqs[1].body)>>
    /\ reqs[1].status = 401
    /\ reqs[2].status = 200
    /\ TriggersOf(2) # {}

\* Request r is a POST whose body was read and is JSON, correctly signed or
\* with no secret configured.
Accepted(r) ==
    /\ r \in DOMAIN reqs
    /\ reqs[r].method = "POST" /\ reqs[r].readOk /\ reqs[r].body.json
    /\ secret = "" \/ SignatureProves(reqs[r].signature, reqs[r].body)

\* C17: such a request is answered 200 in the step that handles it, with
\* its trigger call not yet made (the handler does not wait for it); the
\* trigger is called at most once for it, with the issue ID and project of
\* its payload; and, a started goroutine being run, it is called in the end.
C17_AcceptedTriggersOnce ==
    /\ [](\A r \in DOMAIN reqs :
            Accepted(r) =>
                /\ reqs[r].status = 200
                /\ Cardinality(TriggersOf(r)) = (IF r \in pending THEN 0 ELSE 1)
                /\ \A k \in TriggersOf(r) :
                      /\ triggers[k].issueID = reqs[r].body.issue_id
                      /\ triggers[k].projectIdentifier = reqs[r].body.project_identifier)
    /\ [][Len(reqs') > Len(reqs) => triggers' = triggers]_vars
    /\ \A r \in 1..MaxRequests : Accepted(r) ~> (Cardinality(TriggersOf(r)) = 1)

\* C17 witness: two accepted requests, one signed and for issue 1, answered
\* 200; the trigger has been called for the first and not yet for the second.
C17_Witness ==
    /\ secret = "k1"
    /\ Accepted(1) /\ Accepted(2)
    /\ reqs[1].body.issue_id = 1
    /\ reqs[1].signature = <<Sha256Prefix, Hmac("k1", reqs[1].body)>>
    /\ Cardinality(TriggersOf(1)) = 1
    /\ reqs[2].status = 200 /\ 2 \in pending

\* ----------------------------------------------------------------
\* Properties of the gitfetcher config package
\* ----------------------------------------------------------------

\* Indexes of the entries of c whose interval fails duration parsing.
BadIntervals(c) == {i \in 1..Len(c.Repos) : ParseDuration(c.Repos[i].Interval).err}

\* c has an entry whose interval does not parse, or no entry at all.
Unschedulable(c) == BadIntervals(c) # {} \/ Len(c.Repos) = 0

\* C20 as stated: Validate rejects a configuration with an unparseable
\* interval with an error that carries the name of an offending entry,
\* rejects a configuration with no entry, and LoadConfig returns and
\* SaveConfig writes no such configuration.
C20_ValidateNamesIdentity ==
    /\ (result.op = "Validate" /\ BadIntervals(result.cfg) # {}) =>
          /\ result.err # NoError
          /\ \E i \in BadIntervals(result.cfg) : result.err.name = result.cfg.Repos[i].Name
    /\ (result.op = "Validate" /\ Len(result.cfg.Repos) = 0) => result.err # NoError
    /\ (result.op = "LoadConfig" /\ result.err = NoError) => ~Unschedulable(result.cfg)
    /\ (result.op = "SaveConfig" /\ result.err = NoError) => ~Unschedulable(disk.cfg)

\* C20 amended: Validate rejects both kinds of configuration; the error is
\* that of the first failing check in list order, and when it is the
\* interval error it carries the zero-based index of the first entry with an
\* unparseable interval and that interval string, and no name.  LoadConfig
\* returns and SaveConfig writes no such configuration: a SaveConfig call
\* with one returns an error and leaves the file as it was.
C20_ValidateRejectsUnschedulable ==
    /\ []((result.op = "Validate" /\ Unschedulable(result.cfg)) =>
            /\ result.err # NoError
            /\ result.err.name = ""
            /\ result.err.kind = "invalid interval" =>
                  /\ result.err.index + 1 \in BadIntervals(result.cfg)
                  /\ \A j \in BadIntervals(result.cfg) : result.err.index + 1 <= j
                  /\ result.err.interval = result.cfg.Repos[result.err.index + 1].Interval)
    /\ []((result.op = "LoadConfig" /\ result.err = NoError) =>
            (result.cfg = SetDefaults(disk.cfg) /\ ~Unschedulable(result.cfg)))
    /\ []((result.op = "SaveConfig" /\ result.err = NoError) =>
            (disk.cfg = result.cfg /\ ~Unschedulable(disk.cfg)))
    /\ [][(result'.op = "SaveConfig" /\ Unschedulable(result'.cfg))
            => (result'.err # NoError /\ disk' = disk)]_vars

\* C20 witness: Validate was called on two complete entries of which the
\* second, repo-b, has the interval "5" (no unit), and returned the interval
\* error for index 1.
C20_Witness ==
    /\ result.op = "Validate"
    /\ Len(result.cfg.Repos) = 2
    /\ EntryError(result.cfg.Repos[1]) = ""
    /\ result.cfg.Repos[2].Name = "repo-b"
    /\ result.cfg.Repos[2].Interval = <<"5">>
    /\ result.err.kind = "invalid interval"
    /\ result.err.index = 1

\* ----------------------------------------------------------------
\* Properties of the configuration file watcher
\* ----------------------------------------------------------------

\* C18: a reload whose configuration fails to load or validate leaves the
\* scheduler as it was: Scheduler.LoadConfig is not called (loads), and the
\* maps, the statuses, the stop channels and the workers are unchanged.
C18_FailedReloadKeepsConfig ==
    [][Len(failedReloads') > Len(failedReloads) => UNCHANGED schedVars]_vars

\* C18 witness: a reload failed after one configuration had been applied;
\* the worker of that configuration has since run on a tick and its
\* identity is still live.
C18_Witness ==
    /\ failedReloads = <<1>>
    /\ loads = 1
    /\ \E g \in DOMAIN gs :
          /\ gs[g].pc = "fetching"
          /\ gs[g].ticked = 1
          /\ repos[gs[g].name] # 0

\* ----------------------------------------------------------------
\* Properties of the github-sync configuration reload
\* ----------------------------------------------------------------

\* C19: no value of a file version that was invalid in some part is in the
\* global configuration, in what the Syncer's configuration and clients were
\* built from, or in the Scheduler's interval.
C19_ReloadAllOrNothing ==
    /\ globalConfig.version \notin invalid
    /\ syncerCfg.version \notin invalid
    /\ syncInterval.version \notin invalid

\* ----------------------------------------------------------------
\* Properties of the worker's timer
\* ----------------------------------------------------------------

\* C21: every interval a worker hands to time.NewTicker is at least one unit:
\* no configuration with a zero (or negative) interval passes validation and
\* reaches a worker.
C21_TickerIntervalPositive == \A g \in DOMAIN tickers : tickers[g] >= 1

\* ----------------------------------------------------------------
\* Properties of LoadConfig and SaveConfig together
\* ----------------------------------------------------------------

\* The configuration a successful LoadConfig returns for file f: what the
\* text gives, with 8080 for an absent (or zero) port and "./logs" for an
\* absent (or empty) log path.
Loaded(f) ==
    [Repos |-> f.cfg.Repos,
     SSHKeyPath |-> IF "ssh_key_path" \in f.absent THEN "" ELSE f.cfg.SSHKeyPath,
     HTTPPort |-> IF "http_port" \in f.absent \/ f.cfg.HTTPPort = 0
                  THEN 8080 ELSE f.cfg.HTTPPort,
     LogPath |-> IF "log_path" \in f.absent \/ f.cfg.LogPath = ""
                 THEN "./logs" ELSE f.cfg.LogPath]

C23_InvalidIsNotPersisted ==
    [][(/\ result'.op \in {"SaveConfig", "POST"}
        /\ Validate(result'.cfg) # NoError)
         => (/\ result'.err # NoError
             /\ disk' = disk
             /\ ~fileWritten'
             /\ (result'.op = "POST" => httpStatus' = 400))]_vars

\* The start file is in place and a POST of an invalid configuration (two
\* entries, the second without a name) was answered 400.
C23_Witness ==
    /\ result.op = "POST"
    /\ httpStatus = 400
    /\ Len(result.cfg.Repos) = 2
    /\ Validate(result.cfg).kind = "name is required"
    /\ disk = StartFile

\* ----------------------------------------------------------------
\* Properties of a worker after a failed run
\* ----------------------------------------------------------------

\* C24: when a fetch of goroutine g returns a failure, the status the run
\* holds gets LastSuccess false and one more FailCount, and a worker is back
\* in its select loop; a worker that has had a failure still answers every
\* tick it takes with an executeFetch call (in its loop it has made one call
\* more than it took ticks), and leaves the loop only on its closed stop
\* channel.
C24_FailedRunIsNotFatal ==
    /\ [][\A g \in DOMAIN gs :
            gs'[g].fails > gs[g].fails =>
                /\ ~heap'[gs[g].st].LastSuccess
                /\ heap'[gs[g].st].FailCount = heap[gs[g].st].FailCount + 1
                /\ (gs[g].kind = "timer" => gs'[g].pc = "select")]_vars
    /\ [][\A g \in DOMAIN gs :
            (gs[g].kind = "timer" /\ gs[g].fails > 0) =>
                /\ (gs'[g].ticked > gs[g].ticked => gs'[g].pc = "call")
                /\ (gs'[g].pc = "exited" /\ gs[g].pc # "exited" => closed[gs[g].ch])]_vars
    /\ [](\A g \in DOMAIN gs :
            (gs[g].kind = "timer" /\ gs[g].fails > 0 /\ gs[g].pc = "select") =>
                gs[g].runs = gs[g].ticked + 1)

\* A worker's first run failed and, a tick later, it has run a second time.
C24_Witness ==
    \E g \in DOMAIN gs :
        /\ gs[g].kind = "timer"
        /\ gs[g].fails >= 1
        /\ gs[g].ticked = 1
        /\ gs[g].runs = 2
        /\ gs[g].pc = "select"
        /\ heap[gs[g].st].FailCount >= 1

\* ----------------------------------------------------------------
\* Properties of workers of different identities
\* ----------------------------------------------------------------

\* C25: a step of a goroutine of one identity (the begin or the end of an
\* execution, with either outcome, a tick, its exit) leaves every goroutine
\* and every status of every other identity, and the maps, as they were; and
\* while a fetch of repo-a may hang for ever, an executeFetch call of a
\* repo-b goroutine begins and its fetch completes, as long as the process
\* lives.
C25_WorkersAreIndependent ==
    /\ [][\A g \in DOMAIN gs :
            gs'[g] # gs[g] =>
                /\ \A h \in DOMAIN gs : gs[h].name # gs[g].name => gs'[h] = gs[h]
                /\ \A a \in DOMAIN heap : heap[a].Name # gs[g].name => heap'[a] = heap[a]
                /\ repos' = repos
                /\ stopChans' = stopChans]_vars
    /\ \A g \in 1..MaxGoroutines :
          (g \in DOMAIN gs /\ gs[g].name = "repo-b" /\ gs[g].pc \in {"call", "fetching"})
            ~> ((g \in DOMAIN gs /\ gs[g].pc \in {"select", "done"}) \/ panicked)

\* The first fetch of repo-a is still in progress and the worker of repo-b
\* has completed two runs, a failure among them.
C25_Witness ==
    \E ga, gb \in DOMAIN gs :
        /\ gs[ga].name = "repo-a" /\ gs[ga].pc = "fetching" /\ gs[ga].runs = 1
        /\ gs[gb].name = "repo-b" /\ gs[gb].kind = "timer"
        /\ gs[gb].runs = 2 /\ gs[gb].pc = "select" /\ gs[gb].fails = 1
        /\ heap[gs[gb].st].FetchCount = 2
        /\ ~heap[gs[ga].st].LastSuccess /\ heap[gs[ga].st].FetchCount = 0

\* ----------------------------------------------------------------
\* Properties of the ledger and of failures inside syncIssue
\* ----------------------------------------------------------------

\* C26: in every reachable state sync_records has at most one row per
\* originating issue, also after RecordSync was called again for the issue.
C26_OneRecordPerItem == \A i \in Items : Records(i) <= 1

\* Two overlapping calls for one issue both created a GitHub issue and both
\* called RecordSync: the ledger holds one row, with the later number.
C26_Witness ==
    \E i \in Items :
        /\ Creations(i) = 2
        /\ Len(SelectSeq(calls, LAMBDA c : c.issue = i /\ c.calledCreate
                                                /\ c.result = "ok")) = 2
        /\ Records(i) = 1
        /\ \E k \in 1..Len(ledger) : ledger[k].issue = i /\ ledger[k].number = 2
\* Process p ends its call by dying in this step.
Dies(p) ==
    /\ sp[p].pc # "idle"
    /\ sp'[p].pc = "idle"
    /\ calls'[Len(calls')].result = "crashed"

\* C27: with one service instance, when UpdateCustomField fails after a
\* successful CreateIssue the call goes on to RecordSync with the creation
\* kept and no error row written; the RecordSync that succeeds writes the
\* record and the call returns success; and once an issue has its record no
\* later call creates a GitHub issue for it, though GetNewIssues lists it
\* again.
C27_WriteBackFailureIsNotFatal ==
    /\ [][\A p \in Procs :
            (sp[p].pc = "writeback" /\ sp'[p] # sp[p] /\ ~Dies(p)
                /\ ~urlField'[sp[p].issue]) =>
                    /\ sp'[p].pc = "record"
                    /\ created' = created
                    /\ errors' = errors]_vars
    /\ [][\A p \in Procs :
            (sp[p].pc = "record" /\ ledger' # ledger) =>
                    /\ \E k \in 1..Len(ledger') : ledger'[k].issue = sp[p].issue
                    /\ calls'[Len(calls')] =
                         [issue |-> sp[p].issue, result |-> "ok", calledCreate |-> TRUE,
                          errorRow |-> "none"]]_vars
    /\ [][\A i \in Items : Records(i) >= 1 => Creations(i)' = Creations(i)]_vars

\* The write-back of an issue failed, the issue was recorded, and a second
\* call for it, listed again as new, returned success without creating.
C27_Witness ==
    \E i \in Items :
        /\ ~urlField[i]
        /\ i \in GetNewIssues
        /\ Creations(i) = 1
        /\ Records(i) = 1
        /\ Len(CallsOn(i)) = 2
        /\ CallsOn(i)[1] = [issue |-> i, result |-> "ok", calledCreate |-> TRUE,
                            errorRow |-> "none"]
        /\ CallsOn(i)[2] = [issue |-> i, result |-> "ok", calledCreate |-> FALSE,
                            errorRow |-> "none"]
\* Error rows of originating issue i.
ErrorRows(i) == Cardinality({k \in 1..Len(errors) : errors[k] = i})

\* C28 as stated: every call for an issue that carries no target returns
\* success without calling CreateIssue, and such an issue has no creation, no
\* ledger record and no error row.
C28_NoTargetIsSuccessNoOp ==
    /\ \A k \in 1..Len(calls) :
          (target[calls[k].issue] = <<>> /\ calls[k].result # "crashed") =>
              (calls[k].result = "ok" /\ ~calls[k].calledCreate)
    /\ \A i \in Items :
          target[i] = <<>> => (Creations(i) = 0 /\ Records(i) = 0 /\ ErrorRows(i) = 0)

\* C28 amended: every call for an issue that carries no target returns
\* without calling CreateIssue, with success or, when the ledger lookup that
\* precedes the target check failed, with that error; such an issue has no
\* creation, no ledger record and no error row.
C28_NoTargetIsNoOp ==
    /\ \A k \in 1..Len(calls) :
          (target[calls[k].issue] = <<>> /\ calls[k].result # "crashed") =>
              (calls[k].result \in {"ok", "err-lookup"} /\ ~calls[k].calledCreate)
    /\ \A i \in Items :
          target[i] = <<>> => (Creations(i) = 0 /\ Records(i) = 0 /\ ErrorRows(i) = 0)

\* Two calls for an issue without target are over: one returned the lookup
\* error, the other success; nothing was created, recorded or logged for it.
C28_Witness ==
    \E i \in Items :
        /\ target[i] = <<>>
        /\ Len(CallsOn(i)) = 2
        /\ CallsOn(i)[1].result = "err-lookup"
        /\ CallsOn(i)[2].result = "ok"
        /\ Creations(i) = 0 /\ Records(i) = 0 /\ ErrorRows(i) = 0
\* The calls for issue i that returned the CreateIssue error and whose
\* RecordError insert succeeded.
LoggedCreateFailures(i) ==
    SelectSeq(calls, LAMBDA c : c.issue = i /\ c.result = "err-create"
                                  /\ c.errorRow = "written")

\* The last call for issue i that is over returned the CreateIssue error.
CreateFailedLast(i) ==
    /\ CallsOn(i) # <<>>
    /\ CallsOn(i)[Len(CallsOn(i))].result = "err-create"

\* C29: with one service instance, a call whose CreateIssue fails goes
\* through handleError and returns the creation error, with no creation and
\* no ledger record made and the process free for the next item; sync_errors
\* has a row of the issue for every such call whose RecordError insert
\* succeeded; afterwards the issue has no ledger record and is listed by
\* GetNewIssues again, and the next call for it goes on to CreateIssue once
\* its ledger lookup succeeds.
C29_CreateFailureIsRetried ==
    /\ [][\A p \in Procs :
            (sp[p].pc = "create" /\ sp'[p] # sp[p] /\ ~Dies(p) /\ created' = created) =>
                /\ sp'[p].pc = "error"
                /\ sp'[p].pending = "err-create"
                /\ ledger' = ledger]_vars
    /\ [][\A p \in Procs :
            (sp[p].pc = "error" /\ sp[p].pending = "err-create"
                /\ sp'[p] # sp[p] /\ ~Dies(p)) =>
                /\ sp'[p] = IdleCall
                /\ calls'[Len(calls')].issue = sp[p].issue
                /\ calls'[Len(calls')].result = "err-create"
                /\ calls'[Len(calls')].errorRow # "none"
                /\ ledger' = ledger
                /\ created' = created
                /\ urlField' = urlField]_vars
    /\ [](\A i \in Items : ErrorRows(i) >= Len(LoggedCreateFailures(i)))
    /\ [](\A i \in Items :
            (CreateFailedLast(i) /\ \A p \in Procs : sp[p].pc = "idle") =>
                (Records(i) = 0 /\ i \in GetNewIssues))
    /\ [][\A p \in Procs :
            (sp[p].pc = "check" /\ CreateFailedLast(sp[p].issue)
                /\ sp'[p] # sp[p] /\ ~Dies(p)) =>
                \/ sp'[p].pc = "create"
                \/ calls'[Len(calls')].result = "err-lookup"]_vars

\* CreateIssue failed for one issue and its error row was written; the other
\* issue was then created and recorded; then the first was attempted again
\* and created.
C29_Witness ==
    \E i, j \in Items :
        /\ i # j
        /\ Len(calls) = 3
        /\ calls[1] = [issue |-> i, result |-> "err-create", calledCreate |-> TRUE,
                       errorRow |-> "written"]
        /\ calls[2] = [issue |-> j, result |-> "ok", calledCreate |-> TRUE,
                       errorRow |-> "none"]
        /\ calls[3] = [issue |-> i, result |-> "ok", calledCreate |-> TRUE,
                       errorRow |-> "none"]
        /\ ErrorRows(i) = 1
        /\ Records(i) = 1 /\ Records(j) = 1

C31_NextRunAtEndPlusInterval ==
    \A g \in DOMAIN gs :
        (gs[g].kind = "timer" /\ gs[g].pc = "call" /\ gs[g].ticked >= 1
            /\ ended[g] >= 0) =>
            /\ now = ended[g] + Interval
            /\ repos[gs[g].name] = gs[g].st => nextFetch[gs[g].st] = now
\* C32: the watcher has called Scheduler.LoadConfig at most once for each
\* edit of the file, however many Write events the edit produced.
C32_OneReloadPerEdit == loads <= edits
\* C33: the origin link of a body is built from display_url when the
\* configuration sets it, and then the API url is nowhere in the body; it is
\* built from url when display_url is empty.
C33_LinkUsesDisplayURL ==
    issueBody # <<>> =>
        IF redmineFile.display_url # ""
        THEN /\ LinkBase(issueBody) = redmineFile.display_url
             /\ ~BodyContains(issueBody, redmineFile.url)
        ELSE LinkBase(issueBody) = redmineFile.url
\* Goroutines whose fetcher.Fetch call is in progress.
InFetch == {g \in DOMAIN gs : gs[g].pc = "fetching"}

\* C34: while any number of fetcher.Fetch calls are in progress s.mu is
\* free, so that neither GetStatus nor the lookup of ManualFetch waits for a
\* fetch to return.
C34_LockFreeDuringFetch == InFetch # {} => mu = 0

\* GetStatus returned, with a status marked running, while two fetches were
\* in progress, and they still are.
C34_Witness ==
    /\ Cardinality(InFetch) >= 2
    /\ snaps >= 1
    /\ \A n \in DOMAIN snapAt : snapAt[n].IsRunning
    /\ DOMAIN snapAt # {}
\* Timer workers whose stop channel is no longer the one registered under
\* their name: a reload has replaced them.
Superseded == {g \in DOMAIN gs : gs[g].kind = "timer"
                                 /\ gs[g].ch # stopChans[gs[g].name]}

\* C35: with configurations of distinct names, a worker that a reload has
\* replaced never runs the executor on, nor writes to, the status now
\* registered under its name.
C35_SupersededWorkerLeavesFreshState ==
    ~dupLoaded =>
        \A g \in Superseded :
            gs[g].pc = "fetching" => gs[g].st # repos[gs[g].name]
\* C36: whatever LoadConfig and Stop calls are made, in whatever order, no
\* call closes a stop channel that is already closed: the process never dies
\* of `close of closed channel`.
C36_NoChannelClosedTwice == ~panicked
\* C37: every worker that has not exited and has not been signalled has its
\* stop channel registered in s.stopChans under its name, where the next
\* LoadConfig or Stop finds it.
C37_EveryWorkerHasRegisteredChannel ==
    \A g \in DOMAIN gs :
        (gs[g].kind = "timer" /\ gs[g].pc # "exited" /\ ~closed[gs[g].ch]) =>
            stopChans[gs[g].name] = gs[g].ch
\* An executeFetch call that works on the registered status of name n has
\* its fetcher.Fetch in progress.
FetchInProgress(n) ==
    \E g \in DOMAIN gs : gs[g].pc = "fetching" /\ gs[g].st = repos[n]

\* C38: with configurations of distinct names, for every name with an entry
\* the IsRunning GetStatus copies is true exactly when a fetch on that entry
\* is in progress.
C38_RunningFlagAccurate ==
    ~dupLoaded =>
        \A n \in DOMAIN GetStatus : GetStatus[n].IsRunning = FetchInProgress(n)
\* C39: every item of a run sees the title format of the configuration the
\* run started with, the one its project list and custom-field IDs come
\* from.
C39_RunSeesOneConfig ==
    \A k \in 1..Len(seen) :
        /\ seen[k].projects = seen[1].projects
        /\ seen[k].title = seen[k].projects
\* The most recent version of the file is what the Syncer was last updated
\* from, and the Scheduler's interval is its interval.
LatestApplied(v) ==
    /\ globalConfig.version = v
    /\ syncerCfg = globalConfig
    /\ ParseDuration(syncInterval.value).d = GetSyncInterval(globalConfig).d

\* C40: after valid configuration changes, however many were notified by one
\* pending notification, the Scheduler comes to apply the most recent one to
\* the Syncer and to its interval; and it resets its ticker only for an
\* interval that differs from the one it has.
C40_LatestConfigApplied ==
    /\ \A v \in 0..MaxChanges : (changes = v) ~> (changes > v \/ LatestApplied(v))
    /\ [][syncInterval' # syncInterval =>
            ParseDuration(syncInterval'.value).d # ParseDuration(syncInterval.value).d]_vars

\* Two changes arrived during the first run, which started before either;
\* the one notification they left has been consumed, the Syncer and the
\* interval are those of the second change, and the ticker was reset for it.
C40_Witness ==
    /\ changes = 2 /\ runs = 1 /\ runPc = "idle"
    /\ seen # <<>> /\ seen[1].projects = 0 /\ seen[Len(seen)].title = 2
    /\ reloadChan = 0
    /\ LatestApplied(2)
    /\ syncInterval.version = 2
====
